---- MODULE Spec2Model ----
(***************************************************************************)
(* Verification model of the federation gateway core:                      *)
(*   - the execution engine (pkg/execution/execution.go): Execute,         *)
(*     resolveNode, SingleFetch / SerialFetch / ParallelFetch, with the    *)
(*     goroutines it spawns as interleaved tasks;                          *)
(*   - the node-selection planner (nodeSelectionVisitor).                  *)
(* JSON bytes are abstract values: [t |-> "nil"] is a nil slice,           *)
(* [t |-> "empty"] a non-nil slice of length 0, [t |-> "null"] the literal *)
(* null, [t |-> "str"] a scalar, [t |-> "obj"] / [t |-> "arr"] containers. *)
(* A path string "a.b.c" is the sequence of its segments, and xxhash64 of  *)
(* a path is taken to be injective (the path itself).                      *)
(***************************************************************************)
EXTENDS Integers, Sequences, FiniteSets, TLC

(***************************************************************************)
(* Bounds of the checked instances.                                        *)
(***************************************************************************)
MaxItems == 2
MaxFailAt == 6

(***************************************************************************)
(* Instructions (execution.go:43-47).                                      *)
(***************************************************************************)
KeepStreamAlive == 1
CloseConnection == 2
CloseConnectionIfNotStream == 3

(***************************************************************************)
(* JSON values and the jsonparser calls the executor makes.                *)
(***************************************************************************)
NilData == [t |-> "nil"]
EmptyData == [t |-> "empty"]
NullData == [t |-> "null"]
Str(s) == [t |-> "str", s |-> s]
JObj(f) == [t |-> "obj", v |-> f]
JArr(s) == [t |-> "arr", v |-> s]

LenZero(data) == data.t \in {"nil", "empty"}

BytesEqual(a, b) ==
    IF LenZero(a) \/ LenZero(b) THEN LenZero(a) /\ LenZero(b) ELSE a = b

RECURSIVE Get(_, _)
Get(data, keys) ==
    IF data.t = "obj" /\ keys[1] \in DOMAIN data.v
    THEN IF Len(keys) = 1
         THEN [v |-> data.v[keys[1]], err |-> "nil"]
         ELSE Get(data.v[keys[1]], Tail(keys))
    ELSE [v |-> NilData, err |-> "KeyPathNotFound"]

ArrayEach(data, keys) ==
    LET r == IF keys = <<>> THEN [v |-> data, err |-> "nil"] ELSE Get(data, keys)
    IN  IF r.err # "nil" THEN [items |-> <<>>, err |-> r.err]
        ELSE IF r.v.t = "arr" THEN [items |-> r.v.v, err |-> "nil"]
        ELSE [items |-> <<>>, err |-> "MalformedArray"]

Itoa(i) == <<"0", "1", "2", "3", "4">>[i + 1]

(***************************************************************************)
(* Plan tree, fetches, arguments, conditions (execution.go:375-601).       *)
(***************************************************************************)
NoFetch == [kind |-> "none"]
NoSkip == [kind |-> "none"]
NoFilter == -1

Object(path, fetch, fields) ==
    [kind |-> "Object", Path |-> path, Fetch |-> fetch, Fields |-> fields]
Field(name, value, skip, hasResolver) ==
    [kind |-> "Field", Name |-> name, Value |-> value, Skip |-> skip,
     HasResolver |-> hasResolver]
Value(path, quote) == [kind |-> "Value", Path |-> path, QuoteValue |-> quote]
List(path, value, filter) ==
    [kind |-> "List", Path |-> path, Value |-> value, Filter |-> filter]

SingleFetch(ds, args, bufferName) ==
    [kind |-> "Single", DataSource |-> ds, Args |-> args, BufferName |-> bufferName]
SerialFetch(fetches) == [kind |-> "Serial", Fetches |-> fetches]
ParallelFetch(wgid, fetches) == [kind |-> "Parallel", wg |-> wgid, Fetches |-> fetches]

StaticVariableArgument(name, value) == [kind |-> "Static", Name |-> name, Value |-> value]
ObjectVariableArgument(name, path) == [kind |-> "Object", Name |-> name, Path |-> path]
ContextVariableArgument(name, var) ==
    [kind |-> "Context", Name |-> name, VariableName |-> var]

IfEqual(l, r) == [kind |-> "IfEqual", Left |-> l, Right |-> r]
IfNotEqual(l, r) == [kind |-> "IfNotEqual", Left |-> l, Right |-> r]

RECURSIVE HasResolvers(_)
HasResolvers(node) ==
    CASE node.kind = "Value" -> FALSE
      [] node.kind = "List" -> HasResolvers(node.Value)
      [] node.kind = "Field" -> node.HasResolver \/ HasResolvers(node.Value)
      [] node.kind = "Object" ->
            \E i \in 1..Len(node.Fields) : HasResolvers(node.Fields[i])

ArgValue(arg, vars, data) ==
    CASE arg.kind = "Static" -> arg.Value
      [] arg.kind = "Object" -> Get(data, arg.Path).v
      [] arg.kind = "Context" ->
            IF arg.VariableName \in DOMAIN vars THEN vars[arg.VariableName] ELSE NilData

Evaluate(cond, vars, data) ==
    LET eq == BytesEqual(ArgValue(cond.Left, vars, data), ArgValue(cond.Right, vars, data))
    IN  IF cond.kind = "IfEqual" THEN eq ELSE ~eq

MaterialiseArgs(args, vars, data) ==
    [i \in 1..Len(args) |-> [Key |-> args[i].Name, Value |-> ArgValue(args[i], vars, data)]]

(***************************************************************************)
(* Data sources.  Resolve is deterministic: a data source named in the     *)
(* response table writes that response, any other one echoes its first     *)
(* resolved argument as {"r": <arg>}.                                      *)
(***************************************************************************)
DSInstruction(ds) ==
    CASE ds = "A" -> KeepStreamAlive
      [] ds = "B" -> CloseConnectionIfNotStream
      [] OTHER -> CloseConnection

DSBytes(ds, args, table) ==
    IF ds \in DOMAIN table THEN table[ds]
    ELSE JObj([r |-> IF Len(args) > 0 THEN args[1].Value ELSE NullData])

(***************************************************************************)
(* Inputs of Execute: plan trees with the responses of their data sources  *)
(* and the context variables that drive the Skip conditions.               *)
(***************************************************************************)
\* The Write calls the sink may fail (0: none).  The sink fails in the
\* executions that render on one goroutine; with per-item resolvers it
\* accepts every write.
AnyWrite == 0..MaxFailAt
NoWrite == {0}

SkipIf(var) == IfEqual(ContextVariableArgument("v", var), StaticVariableArgument("c", Str("true")))

PlanFields ==
    Object(<<>>, SingleFetch("U", <<>>, "user"),
      << Field("user",
           Object(<<"user">>, NoFetch,
             << Field("a", Value(<<"a">>, FALSE), SkipIf("sa"), FALSE),
                Field("b", Value(<<"b">>, TRUE), SkipIf("sb"), FALSE),
                Field("c", Value(<<"c">>, FALSE),
                      IfNotEqual(ObjectVariableArgument("o", <<"c">>),
                                 StaticVariableArgument("c", Str("3"))), FALSE) >>),
           NoSkip, TRUE) >>)

UserResponses ==
    { JObj([user |-> JObj([a |-> Str("1"), b |-> Str("x"), c |-> Str("3")])]),
      JObj([user |-> JObj([a |-> Str("1"), c |-> Str("4")])]),
      JObj([other |-> NullData]),
      JObj([user |-> NullData]) }

FieldScenarios ==
    { [plan |-> PlanFields, op |-> "query", failAts |-> AnyWrite,
       vars |-> [v \in S |-> Str("true")], table |-> [U |-> u]] :
         S \in SUBSET {"sa", "sb"}, u \in UserResponses }

ItemFields ==
    << Field("x", Value(<<"r">>, FALSE), NoSkip, TRUE),
       Field("id", Value(<<"id">>, TRUE), NoSkip, FALSE) >>

ItemArgs == << ObjectVariableArgument("id", <<"id">>) >>

PlanList(childPath, fetch, filter) ==
    Object(<<>>, SingleFetch("L", <<>>, "items"),
      << Field("items",
           List(<<"items">>, Object(childPath, fetch, ItemFields), filter),
           NoSkip, TRUE) >>)

Item(id) == JObj([id |-> Str(id), n |-> JObj([id |-> Str(id)])])
ItemNoN(id) == JObj([id |-> Str(id)])

RECURSIVE SeqsUpTo(_, _)
SeqsUpTo(S, n) ==
    IF n = 0 THEN {<<>>}
    ELSE LET R == SeqsUpTo(S, n - 1)
         IN  R \cup {Append(s, x) : s \in {r \in R : Len(r) = n - 1}, x \in S}

ItemLists(S) == {JObj([items |-> JArr(s)]) : s \in SeqsUpTo(S, MaxItems)}

DistinctItems == {JObj([items |-> JArr([i \in 1..n |-> Item(Itoa(i))])]) : n \in 0..MaxItems}

ListScenarios ==
    { [plan |-> PlanList(<<>>, NoFetch, f), op |-> "query", failAts |-> AnyWrite,
       vars |-> <<>>, table |-> [L |-> l]] :
         f \in {NoFilter, 0, 1},
         l \in DistinctItems \cup {JObj([other |-> NullData]), JObj([items |-> NullData]),
                                   EmptyData} }
    \cup
    { [plan |-> PlanList(<<"n">>, SingleFetch("I", ItemArgs, "x"), f), op |-> "query",
       failAts |-> NoWrite, vars |-> <<>>, table |-> [L |-> l]] :
         f \in {NoFilter, 1}, l \in ItemLists({Item("1"), ItemNoN("2")}) }
    \cup
    { [plan |-> PlanList(<<>>, ParallelFetch("P1", <<SingleFetch("I", ItemArgs, "x")>>), NoFilter),
       op |-> "query", failAts |-> NoWrite, vars |-> <<>>, table |-> [L |-> l]] :
         l \in DistinctItems }

RootFields ==
    << Field("a", Value(<<>>, TRUE), NoSkip, TRUE),
       Field("b", Value(<<>>, TRUE), NoSkip, TRUE),
       Field("c", Value(<<>>, TRUE), NoSkip, TRUE),
       Field("d", Value(<<"d">>, FALSE), NoSkip, FALSE) >>

FA == SingleFetch("A", <<>>, "a")
FB == SingleFetch("B", <<>>, "b")
FC == SingleFetch("C", <<>>, "c")
\* a second fetch into the buffer "a"
FCa == SingleFetch("C", <<>>, "a")

RootFetches ==
    { FA, SerialFetch(<<FA, FB>>), ParallelFetch("P2", <<FA, FB>>),
      SerialFetch(<<FC, ParallelFetch("P2", <<FA, FB>>)>>),
      ParallelFetch("P2", <<SerialFetch(<<FA, FB>>), FC>>),
      ParallelFetch("P2", <<FA, FCa>>) }

RootScenarios ==
    { [plan |-> Object(<<>>, f, RootFields), op |-> o, failAts |-> AnyWrite, vars |-> <<>>,
       table |-> [A |-> Str("ra"), B |-> Str("rb"), C |-> Str("rc")]] :
         f \in RootFetches, o \in {"query", "mutation"} }

Scenarios == FieldScenarios \cup ListScenarios \cup RootScenarios

WgIds == {"L", "P1", "P2"}

(***************************************************************************)
(* State.  Executor fields (execution.go:20-26), the output sink, the      *)
(* goroutines of one execution with their call stacks, and the wait        *)
(* groups.  resolveLog, outBy, returnedPar and started are history that    *)
(* the properties read; the code's behaviour does not depend on them.      *)
(***************************************************************************)
VARIABLES
    phase,          \* "idle" (constructed), "running" (inside Execute), "done"
    plan, ctx, table, failAt,   \* inputs of the Execute call
    err,            \* Executor.err: "nil" or an error
    out,            \* chunks the sink has accepted, in order
    outBy,          \* the task that wrote each chunk
    wcalls,         \* number of Write calls made on the sink
    instructions,   \* Executor.instructions
    buffers,        \* LockableBufferMap.Buffers: path hash -> buffer
    heap,           \* contents of the allocated bytes.Buffers
    mutex,          \* LockableBufferMap's sync.Mutex: 0, or the task holding it
    mapAccess,      \* reads and writes of the Buffers map made so far
    tasks,          \* goroutines: tasks[1] is the caller of Execute
    wg,             \* sync.WaitGroup state: counter v, waiters w, semaphore
    panicked,       \* the runtime has panicked (WaitGroup misuse)
    resolveLog,     \* Instructions returned by DataSource.Resolve, in order
    nextInv, returnedPar,   \* ParallelFetch invocations: ids, those returned
    result          \* what Execute returned

inputs == <<plan, ctx, table, failAt>>
sink == <<err, out, outBy, wcalls>>
bufs == <<buffers, heap>>
locks == <<mutex, mapAccess>>
hist == <<resolveLog, nextInv, returnedPar>>
evars == <<phase, inputs, sink, instructions, bufs, locks, tasks, wg, panicked, hist, result>>

Frame(node, data, path, prefetch, shouldFetch) ==
    [node |-> node, data |-> data, path |-> path, prefetch |-> prefetch,
     shouldFetch |-> shouldFetch, pc |-> "start", i |-> 1, items |-> <<>>, n |-> 0,
     exists |-> FALSE, buf |-> 0, snap |-> <<>>, inv |-> 0, missing |-> FALSE]

GoNode(fetch, wgid) == [kind |-> "Go", fetch |-> fetch, wg |-> wgid]
Task(frame, parent) == [stack |-> <<frame>>, ret |-> 0, parent |-> parent]

Live(t) == phase = "running" /\ ~panicked /\ t \in 1..Len(tasks) /\ tasks[t].stack # <<>>
Top(t) == tasks[t].stack[Len(tasks[t].stack)]
At(t, kind, pc) == Live(t) /\ Top(t).node.kind = kind /\ Top(t).pc = pc

WithTop(t, f) == [tasks EXCEPT ![t].stack[Len(tasks[t].stack)] = f]
Popped(t) == [tasks EXCEPT ![t].stack = SubSeq(@, 1, Len(@) - 1)]
PoppedRet(t, r) == [tasks EXCEPT ![t].stack = SubSeq(@, 1, Len(@) - 1), ![t].ret = r]
Pushed(t, f, g) == [tasks EXCEPT ![t].stack = Append([@ EXCEPT ![Len(@)] = f], g)]

(***************************************************************************)
(* Executor.write (execution.go:67-72) on the sink state w, by task t.     *)
(* The sink fails exactly its failAt-th Write call and accepts the others. *)
(***************************************************************************)
W == [err |-> err, out |-> out, by |-> outBy, wcalls |-> wcalls]
SetW(w) == err' = w.err /\ out' = w.out /\ outBy' = w.by /\ wcalls' = w.wcalls

Lit(s) == Str(s)
Chunk(data) == IF data.t = "null" THEN Lit("null") ELSE data

SinkWrite(w, t, data) ==
    IF w.wcalls + 1 = failAt
    THEN [w EXCEPT !.wcalls = @ + 1, !.err = "WriteError"]
    ELSE [w EXCEPT !.wcalls = @ + 1, !.err = "nil",
                   !.out = IF LenZero(data) THEN @ ELSE Append(@, Chunk(data)),
                   !.by = IF LenZero(data) THEN @ ELSE Append(@, t)]

write(w, t, data) == IF w.err # "nil" THEN w ELSE SinkWrite(w, t, data)

RECURSIVE writes(_, _, _)
writes(w, t, chunks) ==
    IF chunks = <<>> THEN w ELSE writes(write(w, t, Head(chunks)), t, Tail(chunks))

OperationPath(op) ==
    CASE op = "query" -> <<"query">>
      [] op = "mutation" -> <<"mutation">>
      [] op = "subscription" -> <<"subscription">>

(***************************************************************************)
(* NewExecutor (execution.go:33-39).                                       *)
(***************************************************************************)
ExecInit ==
    /\ phase = "idle"
    /\ plan = NoFetch /\ ctx = <<>> /\ table = <<>> /\ failAt = 0
    /\ err = "nil" /\ out = <<>> /\ outBy = <<>> /\ wcalls = 0
    /\ instructions = <<>>
    /\ buffers = <<>> /\ heap = <<>>
    /\ mutex = 0 /\ mapAccess = {}
    /\ tasks = <<>>
    /\ wg = [id \in WgIds |-> [v |-> 0, w |-> 0, sema |-> 0]]
    /\ panicked = FALSE
    /\ resolveLog = <<>> /\ nextInv = 1 /\ returnedPar = {}
    /\ result = <<>>

(***************************************************************************)
(* Execute (execution.go:49-65): entry and return.                         *)
(***************************************************************************)
Execute ==
    /\ phase = "idle"
    /\ \E sc \in Scenarios : \E f \in sc.failAts :
         /\ plan' = sc.plan /\ ctx' = sc.vars /\ table' = sc.table /\ failAt' = f
         /\ tasks' = <<Task(Frame(sc.plan, NilData, OperationPath(sc.op), "none", TRUE), 0)>>
    /\ err' = "nil" /\ instructions' = <<>>
    /\ phase' = "running"
    /\ UNCHANGED <<out, outBy, wcalls, bufs, locks, wg, panicked, hist, result>>

Return ==
    /\ phase = "running" /\ ~panicked
    /\ tasks[1].stack = <<>>
    /\ phase' = "done"
    /\ result' = [instruction |-> instructions, err |-> err]
    /\ UNCHANGED <<inputs, sink, instructions, bufs, locks, tasks, wg, panicked, hist>>

(***************************************************************************)
(* sync.WaitGroup as the executor uses it.                                 *)
(***************************************************************************)
WgAdd(g) == [g EXCEPT !.v = @ + 1]
WgDone(g) ==
    IF g.v - 1 = 0 /\ g.w > 0
    THEN [v |-> 0, w |-> 0, sema |-> g.sema + g.w]
    ELSE [g EXCEPT !.v = @ - 1]
\* Wait that does not wait: it returns whatever the counter is.
WgWaitReturns_NoWait(g) == g.v = g.v
WgWaitReturns(g) == g.v = 0

(***************************************************************************)
(* resolveNode, case *Object (execution.go:76-113).                        *)
(***************************************************************************)
ObjectStart(t) ==
    /\ At(t, "Object", "start")
    /\ LET f == Top(t) IN
       IF f.data.t # "nil" /\ f.node.Path # <<>>
       THEN LET r == Get(f.data, f.node.Path) IN
            /\ err' = r.err
            /\ tasks' = WithTop(t, [f EXCEPT !.data = r.v, !.pc = "chk",
                                             !.missing = (r.err = "KeyPathNotFound")])
       ELSE /\ tasks' = WithTop(t, [f EXCEPT !.pc = "fetch"])
            /\ UNCHANGED err
    /\ UNCHANGED <<phase, inputs, out, outBy, wcalls, instructions, bufs, locks, wg, panicked, hist, result>>

ObjectCheck(t) ==
    /\ At(t, "Object", "chk")
    /\ IF err = "KeyPathNotFound"
       THEN err' = "nil" /\ tasks' = WithTop(t, [Top(t) EXCEPT !.pc = "wnull"])
       ELSE UNCHANGED err /\ tasks' = WithTop(t, [Top(t) EXCEPT !.pc = "fetch"])
    /\ UNCHANGED <<phase, inputs, out, outBy, wcalls, instructions, bufs, locks, wg, panicked, hist, result>>

ObjectPathMissing(t) ==
    /\ At(t, "Object", "wnull")
    /\ SetW(write(W, t, NullData))
    /\ tasks' = Popped(t)
    /\ UNCHANGED <<phase, inputs, instructions, bufs, locks, wg, panicked, hist, result>>

ObjectFetch(t) ==
    /\ At(t, "Object", "fetch")
    /\ LET f == Top(t) IN
       tasks' = IF f.shouldFetch /\ f.node.Fetch.kind # "none"
                THEN Pushed(t, [f EXCEPT !.pc = "append"],
                            Frame(f.node.Fetch, f.data, f.path, "none", TRUE))
                ELSE WithTop(t, [f EXCEPT !.pc = "post"])
    /\ UNCHANGED <<phase, inputs, sink, instructions, bufs, locks, wg, panicked, hist, result>>

ObjectAppendRead(t) ==
    /\ At(t, "Object", "append")
    /\ tasks' = WithTop(t, [Top(t) EXCEPT !.snap = instructions, !.pc = "append2"])
    /\ UNCHANGED <<phase, inputs, sink, instructions, bufs, locks, wg, panicked, hist, result>>

ObjectAppendWrite(t) ==
    /\ At(t, "Object", "append2")
    /\ instructions' = Append(Top(t).snap, tasks[t].ret)
    /\ tasks' = WithTop(t, [Top(t) EXCEPT !.snap = <<>>, !.pc = "post"])
    /\ UNCHANGED <<phase, inputs, sink, bufs, locks, wg, panicked, hist, result>>

ObjectPrefetchDone(t) ==
    /\ At(t, "Object", "post")
    /\ Top(t).prefetch # "none"
    /\ wg' = [wg EXCEPT ![Top(t).prefetch] = WgDone(@)]
    /\ tasks' = Popped(t)
    /\ UNCHANGED <<phase, inputs, sink, instructions, bufs, locks, panicked, hist, result>>

ObjectOpen(t) ==
    /\ At(t, "Object", "post")
    /\ Top(t).prefetch = "none"
    /\ IF Top(t).data = NullData
       THEN SetW(write(W, t, NullData)) /\ tasks' = Popped(t)
       ELSE /\ SetW(write(W, t, Lit("{")))
            /\ tasks' = WithTop(t, [Top(t) EXCEPT !.pc = "fields", !.i = 1])
    /\ UNCHANGED <<phase, inputs, instructions, bufs, locks, wg, panicked, hist, result>>

FieldSkipped(f) ==
    /\ f.node.Fields[f.i].Skip.kind # "none"
    /\ Evaluate(f.node.Fields[f.i].Skip, ctx, f.data)

CommaBefore(i) == i # 1

ObjectSkipField(t) ==
    /\ At(t, "Object", "fields")
    /\ Top(t).i <= Len(Top(t).node.Fields)
    /\ FieldSkipped(Top(t))
    /\ tasks' = WithTop(t, [Top(t) EXCEPT !.i = @ + 1])
    /\ UNCHANGED <<phase, inputs, sink, instructions, bufs, locks, wg, panicked, hist, result>>

ObjectField(t) ==
    /\ At(t, "Object", "fields")
    /\ Top(t).i <= Len(Top(t).node.Fields)
    /\ ~FieldSkipped(Top(t))
    /\ LET f == Top(t) IN
       /\ SetW(IF CommaBefore(f.i) THEN write(W, t, Lit(",")) ELSE W)
       /\ tasks' = Pushed(t, [f EXCEPT !.i = @ + 1],
                          Frame(f.node.Fields[f.i], f.data, f.path, "none", TRUE))
    /\ UNCHANGED <<phase, inputs, instructions, bufs, locks, wg, panicked, hist, result>>

ObjectClose(t) ==
    /\ At(t, "Object", "fields")
    /\ Top(t).i > Len(Top(t).node.Fields)
    /\ SetW(write(W, t, Lit("}")))
    /\ tasks' = Popped(t)
    /\ UNCHANGED <<phase, inputs, instructions, bufs, locks, wg, panicked, hist, result>>

(***************************************************************************)
(* resolveNode, case *Field (execution.go:114-136).  The buffer map is     *)
(* read here without taking its lock.                                      *)
(***************************************************************************)
FieldPath_NameOnly(f) == <<f.node.Name>>
FieldPath(f) == Append(f.path, f.node.Name)
FieldHasBuffer(f) == FieldPath(f) \in DOMAIN buffers
FieldData(f) == IF f.node.HasResolver THEN heap[buffers[FieldPath(f)]] ELSE f.data
\* buffer, ok := e.buffers.Buffers[hash]: a read of the map by task t.
MapAccess(t, op, by) == [op |-> op, by |-> by, locked |-> mutex = t]
FieldMapAccess(t) ==
    IF Top(t).node.HasResolver
    THEN mapAccess \cup {MapAccess(t, "lookup", "Field")}
    ELSE mapAccess
NameChunks(name) == <<Lit("\""), Lit(name), Lit("\""), Lit(":")>>

FieldNoBuffer(t) ==
    /\ At(t, "Field", "start")
    /\ mapAccess' = FieldMapAccess(t)
    /\ Top(t).node.HasResolver /\ ~FieldHasBuffer(Top(t))
    /\ SetW(writes(W, t, NameChunks(Top(t).node.Name) \o <<NullData>>))
    /\ tasks' = Popped(t)
    /\ UNCHANGED <<phase, inputs, instructions, bufs, mutex, wg, panicked, hist, result>>

FieldNull(t) ==
    /\ At(t, "Field", "start")
    /\ mapAccess' = FieldMapAccess(t)
    /\ Top(t).node.HasResolver => FieldHasBuffer(Top(t))
    /\ LenZero(FieldData(Top(t))) /\ ~HasResolvers(Top(t).node.Value)
    /\ SetW(writes(W, t, NameChunks(Top(t).node.Name) \o <<NullData>>))
    /\ tasks' = Popped(t)
    /\ UNCHANGED <<phase, inputs, instructions, bufs, mutex, wg, panicked, hist, result>>

FieldDescend(t) ==
    /\ At(t, "Field", "start")
    /\ mapAccess' = FieldMapAccess(t)
    /\ Top(t).node.HasResolver => FieldHasBuffer(Top(t))
    /\ ~(LenZero(FieldData(Top(t))) /\ ~HasResolvers(Top(t).node.Value))
    /\ SetW(writes(W, t, NameChunks(Top(t).node.Name)))
    /\ tasks' = WithTop(t, Frame(Top(t).node.Value, FieldData(Top(t)), FieldPath(Top(t)),
                                 "none", TRUE))
    /\ UNCHANGED <<phase, inputs, instructions, bufs, mutex, wg, panicked, hist, result>>

(***************************************************************************)
(* resolveNode, case *Value (execution.go:137-164).                        *)
(***************************************************************************)
Quoted(node, data) ==
    IF node.QuoteValue THEN <<Lit("\""), data, Lit("\"")>> ELSE <<data>>

ValueWrite(t) ==
    /\ At(t, "Value", "start")
    /\ LET f == Top(t)
           r == Get(f.data, f.node.Path)
       IN  IF f.data = NullData THEN SetW(write(W, t, NullData))
           ELSE IF f.node.Path = <<>> THEN SetW(writes(W, t, Quoted(f.node, f.data)))
           ELSE IF r.err = "KeyPathNotFound"
                THEN SetW(write([W EXCEPT !.err = "nil"], t, NullData))
                ELSE SetW(writes([W EXCEPT !.err = r.err], t, Quoted(f.node, r.v)))
    /\ tasks' = Popped(t)
    /\ UNCHANGED <<phase, inputs, instructions, bufs, locks, wg, panicked, hist, result>>

(***************************************************************************)
(* resolveNode, case *List (execution.go:165-216).  A list whose element   *)
(* is an Object with a Fetch spawns one resolver goroutine per item on a   *)
(* wait group of its own and waits for it.                                 *)
(***************************************************************************)
ShouldPrefetch(node) == node.Value.kind = "Object" /\ node.Value.Fetch.kind # "none"

MaxItemsOf_NoFilter(node, listItems) == Len(listItems)

MaxItemsOf(node, listItems) ==
    IF node.Filter # NoFilter /\ Len(listItems) > node.Filter
    THEN node.Filter ELSE Len(listItems)

ItemPath_NoIndex(path, i) == Append(path, Itoa(0))

ItemPath(path, i) == Append(path, Itoa(i))

ListNoData(t) ==
    /\ At(t, "List", "start")
    /\ LenZero(Top(t).data)
    /\ SetW(write(W, t, NullData))
    /\ tasks' = Popped(t)
    /\ UNCHANGED <<phase, inputs, instructions, bufs, locks, wg, panicked, hist, result>>

ListBegin(t) ==
    /\ At(t, "List", "start")
    /\ ~LenZero(Top(t).data)
    /\ LET f == Top(t)
           ae == ArrayEach(f.data, f.node.Path)
           n == MaxItemsOf(f.node, ae.items)
       IN  /\ err' = ae.err
           /\ IF ShouldPrefetch(f.node)
              THEN /\ wg' = [wg EXCEPT !["L"].v = @ + n]
                   /\ tasks' = WithTop(t, [f EXCEPT !.items = ae.items, !.n = n, !.pc = "wait"])
                               \o [i \in 1..n |->
                                     Task(Frame(f.node.Value, ae.items[i],
                                                ItemPath(f.path, i - 1), "L", TRUE), 0)]
              ELSE /\ tasks' = WithTop(t, [f EXCEPT !.items = ae.items, !.n = n, !.pc = "render"])
                   /\ UNCHANGED wg
    /\ UNCHANGED <<phase, inputs, out, outBy, wcalls, instructions, bufs, locks, panicked, hist, result>>

ListWait(t) ==
    /\ At(t, "List", "wait")
    /\ WgWaitReturns(wg["L"])
    /\ tasks' = WithTop(t, [Top(t) EXCEPT !.pc = "render"])
    /\ UNCHANGED <<phase, inputs, sink, instructions, bufs, locks, wg, panicked, hist, result>>

ListItem(t) ==
    /\ At(t, "List", "render")
    /\ Top(t).i <= Top(t).n
    /\ LET f == Top(t) IN
       /\ SetW(write(W, t, IF f.i = 1 THEN Lit("[") ELSE Lit(",")))
       /\ tasks' = Pushed(t, [f EXCEPT !.i = @ + 1],
                          Frame(f.node.Value, f.items[f.i], ItemPath(f.path, f.i - 1),
                                "none", FALSE))
    /\ UNCHANGED <<phase, inputs, instructions, bufs, locks, wg, panicked, hist, result>>

ListClose(t) ==
    /\ At(t, "List", "render")
    /\ Top(t).i > Top(t).n
    /\ IF Top(t).n <= 0 \/ err = "KeyPathNotFound"
       THEN SetW(writes([W EXCEPT !.err = "nil"], t, <<Lit("["), Lit("]")>>))
       ELSE SetW(write(W, t, Lit("]")))
    /\ tasks' = Popped(t)
    /\ UNCHANGED <<phase, inputs, instructions, bufs, locks, wg, panicked, hist, result>>

(***************************************************************************)
(* SingleFetch.Fetch (execution.go:435-450): lookup under the lock, then   *)
(* insert of a new buffer under the lock or Reset of the one found, then   *)
(* DataSource.Resolve into the buffer.                                     *)
(***************************************************************************)
BufferName(f) == Append(f.path, f.node.BufferName)

\* buffers.Lock()
SingleLock(t) ==
    /\ At(t, "Single", "start")
    /\ mutex = 0
    /\ mutex' = t
    /\ tasks' = WithTop(t, [Top(t) EXCEPT !.pc = "lookup"])
    /\ UNCHANGED <<phase, inputs, sink, instructions, bufs, mapAccess, wg, panicked, hist, result>>

\* buffer, exists := buffers.Buffers[hash]; buffers.Unlock()
SingleLookup(t) ==
    /\ At(t, "Single", "lookup")
    /\ LET f == Top(t)
           hash == BufferName(f)
       IN  tasks' = WithTop(t, [f EXCEPT !.exists = hash \in DOMAIN buffers,
                                         !.buf = IF hash \in DOMAIN buffers
                                                 THEN buffers[hash] ELSE 0,
                                         !.pc = "ins"])
    /\ mapAccess' = mapAccess \cup {MapAccess(t, "lookup", "SingleFetch")}
    /\ mutex' = 0
    /\ UNCHANGED <<phase, inputs, sink, instructions, bufs, wg, panicked, hist, result>>

\* if !exists { buffer = bytes.NewBuffer(...); buffers.Lock()
SingleLockInsert(t) ==
    /\ At(t, "Single", "ins")
    /\ ~Top(t).exists
    /\ mutex = 0
    /\ mutex' = t
    /\ tasks' = WithTop(t, [Top(t) EXCEPT !.pc = "insert"])
    /\ UNCHANGED <<phase, inputs, sink, instructions, bufs, mapAccess, wg, panicked, hist, result>>

\* buffers.Buffers[hash] = buffer; buffers.Unlock()
SingleInsert(t) ==
    /\ At(t, "Single", "insert")
    /\ LET f == Top(t)
           hash == BufferName(f)
           new == Len(heap) + 1
       IN  /\ heap' = Append(heap, EmptyData)
           /\ buffers' = [h \in DOMAIN buffers \cup {hash} |->
                            IF h = hash THEN new ELSE buffers[h]]
           /\ tasks' = WithTop(t, [f EXCEPT !.buf = new, !.pc = "resolve"])
    /\ mapAccess' = mapAccess \cup {MapAccess(t, "insert", "SingleFetch")}
    /\ mutex' = 0
    /\ UNCHANGED <<phase, inputs, sink, instructions, wg, panicked, hist, result>>

\* } else { buffer.Reset() }
SingleReset(t) ==
    /\ At(t, "Single", "ins")
    /\ Top(t).exists
    /\ heap' = [heap EXCEPT ![Top(t).buf] = EmptyData]
    /\ tasks' = WithTop(t, [Top(t) EXCEPT !.pc = "resolve"])
    /\ UNCHANGED <<phase, inputs, sink, instructions, buffers, locks, wg, panicked, hist, result>>

SingleResolve(t) ==
    /\ At(t, "Single", "resolve")
    /\ LET f == Top(t)
           args == MaterialiseArgs(f.node.Args, ctx, f.data)
       IN  /\ heap' = [heap EXCEPT ![f.buf] = DSBytes(f.node.DataSource, args, table)]
           /\ resolveLog' = Append(resolveLog, DSInstruction(f.node.DataSource))
           /\ tasks' = PoppedRet(t, DSInstruction(f.node.DataSource))
    /\ UNCHANGED <<phase, inputs, sink, instructions, buffers, locks, wg, panicked,
                   nextInv, returnedPar, result>>

(***************************************************************************)
(* SerialFetch.Fetch (execution.go:456-461).                               *)
(***************************************************************************)
\* The child the loop calls at index i: s.Fetches[i].
SerialChild_Reversed(f) == f.node.Fetches[Len(f.node.Fetches) + 1 - f.i]

SerialChild(f) == f.node.Fetches[f.i]

SerialNext(t) ==
    /\ At(t, "Serial", "start")
    /\ Top(t).i <= Len(Top(t).node.Fetches)
    /\ LET f == Top(t) IN
       tasks' = Pushed(t, [f EXCEPT !.i = @ + 1],
                       Frame(SerialChild(f), f.data, f.path, "none", TRUE))
    /\ UNCHANGED <<phase, inputs, sink, instructions, bufs, locks, wg, panicked, hist, result>>

SerialReturn(t) ==
    /\ At(t, "Serial", "start")
    /\ Top(t).i > Len(Top(t).node.Fetches)
    /\ tasks' = PoppedRet(t, CloseConnection)
    /\ UNCHANGED <<phase, inputs, sink, instructions, bufs, locks, wg, panicked, hist, result>>

(***************************************************************************)
(* ParallelFetch.Fetch (execution.go:468-478) on the node's own wait       *)
(* group: one Add and one goroutine per child, then Wait.  Wait returns at *)
(* once on a zero counter; otherwise the caller registers as a waiter and, *)
(* once released, panics if the group is already in use again.             *)
(***************************************************************************)
InvOf(f) == IF f.inv = 0 THEN nextInv ELSE f.inv

ParallelSpawn(t) ==
    /\ At(t, "Parallel", "start")
    /\ Top(t).i <= Len(Top(t).node.Fetches)
    /\ LET f == Top(t) IN
       /\ wg' = [wg EXCEPT ![f.node.wg] = WgAdd(@)]
       /\ nextInv' = IF f.inv = 0 THEN nextInv + 1 ELSE nextInv
       /\ tasks' = Append(WithTop(t, [f EXCEPT !.i = @ + 1, !.inv = InvOf(f)]),
                          Task(Frame(GoNode(f.node.Fetches[f.i], f.node.wg), f.data, f.path,
                                     "none", TRUE), InvOf(f)))
    /\ UNCHANGED <<phase, inputs, sink, instructions, bufs, locks, panicked, resolveLog,
                   returnedPar, result>>

ParallelWait(t) ==
    /\ At(t, "Parallel", "start")
    /\ Top(t).i > Len(Top(t).node.Fetches)
    /\ LET f == Top(t) IN
       IF WgWaitReturns(wg[f.node.wg])
       THEN /\ tasks' = PoppedRet(t, CloseConnection)
            /\ returnedPar' = returnedPar \cup ({f.inv} \ {0})
            /\ UNCHANGED wg
       ELSE /\ wg' = [wg EXCEPT ![f.node.wg].w = @ + 1]
            /\ tasks' = WithTop(t, [f EXCEPT !.pc = "blocked"])
            /\ UNCHANGED returnedPar
    /\ UNCHANGED <<phase, inputs, sink, instructions, bufs, locks, panicked, resolveLog,
                   nextInv, result>>

ParallelWake(t) ==
    /\ At(t, "Parallel", "blocked")
    /\ wg[Top(t).node.wg].sema > 0
    /\ wg' = [wg EXCEPT ![Top(t).node.wg].sema = @ - 1]
    /\ IF wg[Top(t).node.wg].v # 0 \/ wg[Top(t).node.wg].w # 0
       THEN panicked' = TRUE /\ UNCHANGED <<tasks, returnedPar>>
       ELSE /\ tasks' = PoppedRet(t, CloseConnection)
            /\ returnedPar' = returnedPar \cup {Top(t).inv}
            /\ UNCHANGED panicked
    /\ UNCHANGED <<phase, inputs, sink, instructions, bufs, locks, resolveLog, nextInv, result>>

GoFetch(t) ==
    /\ At(t, "Go", "start")
    /\ LET f == Top(t) IN
       tasks' = Pushed(t, [f EXCEPT !.pc = "done"],
                       Frame(f.node.fetch, f.data, f.path, "none", TRUE))
    /\ UNCHANGED <<phase, inputs, sink, instructions, bufs, locks, wg, panicked, hist, result>>

GoDone(t) ==
    /\ At(t, "Go", "done")
    /\ wg' = [wg EXCEPT ![Top(t).node.wg] = WgDone(@)]
    /\ tasks' = Popped(t)
    /\ UNCHANGED <<phase, inputs, sink, instructions, bufs, locks, panicked, hist, result>>

TaskIds == 1..Len(tasks)

(***************************************************************************)
(*                       NODE-SELECTION PLANNER                            *)
(*                                                                         *)
(* The visitor nodeSelectionVisitor, driven by a walker over the operation *)
(* document.  A Go map is a function whose domain is the set of its keys;  *)
(* a key "%d.%d" or "%d.%s" is the pair of its components.  Selection-set  *)
(* strings of federation configurations are opaque names whose field lists *)
(* SelNames gives; a field ref is the index of the field in the document.  *)
(***************************************************************************)
Has(m, k) == k \in DOMAIN m
Put(m, k, v) == [x \in DOMAIN m \cup {k} |-> IF x = k THEN v ELSE m[x]]
Del(m, k) == [x \in DOMAIN m \ {k} |-> m[x]]
Lookup(m, k, default) == IF k \in DOMAIN m THEN m[k] ELSE default

\* F applied to the value of e: e is evaluated once, before F uses it.
Then(e, F(_)) == CHOOSE y \in {F(x) : x \in {e}} : TRUE

Contains(seq, x) == \E i \in 1..Len(seq) : seq[i] = x

typeNameField == "__typename"
InvalidRef == -1

VARIABLES
    cfg,        \* inputs of the planning run: data sources, suggestions, rewrites
    operation,  \* the operation document: fields and selection sets
    c,          \* the nodeSelectionVisitor
    walker,     \* astvisitor.Walker: position, stop flag, internal error
    keyLoop,    \* locals of processPendingKeyRequirements while it runs, and
                \* whether the loop has run an odd number of iterations
    trail       \* history: hops seen, requirements injected, sets left

pvars == <<cfg, operation, c, walker, keyLoop, trail>>

VARIABLES
    call,       \* ResolveArgs: "none", "called" with its inputs, or "returned"
    argsIn,     \* inputs of the call: args, context.ExtraArguments, data
    argsOut     \* the ResolvedArgs it returned

avars == <<call, argsIn, argsOut>>

VARIABLES
    content,        \* ast.Input.RawBytes: the content of the input buffer
    InputPosition,  \* ast.Input.InputPosition: the read cursor (bytes consumed)
    tokens,         \* history: the tokens Read() returned, with what they resolved to
    appended        \* history: AppendInputBytes calls since ResetInputBytes

lvars == <<content, InputPosition, tokens, appended>>
vars == <<evars, pvars, avars, lvars>>

(***************************************************************************)
(* DataSource configuration (the planner's view of a subgraph).            *)
(***************************************************************************)
FederationFieldConfiguration(typeName, fieldName, sel) ==
    [TypeName |-> typeName, FieldName |-> fieldName, SelectionSet |-> sel]

DataSourceAt(h) == CHOOSE d \in {cfg.dataSources[i] : i \in 1..Len(cfg.dataSources)} : d.hash = h
HasDataSource(h) == \E i \in 1..Len(cfg.dataSources) : cfg.dataSources[i].hash = h

RequiredFieldsByKey(ds, typeName) == Lookup(ds.keys, typeName, <<>>)
RequiredFieldsByRequires(ds, typeName, fieldName) ==
    IF Has(ds.requires, <<typeName, fieldName>>)
    THEN [exists |-> TRUE,
          cfg |-> FederationFieldConfiguration(typeName, fieldName,
                                               ds.requires[<<typeName, fieldName>>])]
    ELSE [exists |-> FALSE, cfg |-> FederationFieldConfiguration(typeName, fieldName, "")]
NonResolvableKeys(ds, typeName) == Lookup(ds.nrkeys, typeName, <<>>)
HasKeyRequirement(ds, typeName, sel) ==
    \/ \E i \in 1..Len(RequiredFieldsByKey(ds, typeName)) :
          RequiredFieldsByKey(ds, typeName)[i].SelectionSet = sel
    \/ \E i \in 1..Len(NonResolvableKeys(ds, typeName)) :
          NonResolvableKeys(ds, typeName)[i].SelectionSet = sel
HasInterfaceObject(ds, typeName) == typeName \in ds.interfaceObjects
HasEntityInterface(ds, typeName) == typeName \in ds.entityInterfaces

(***************************************************************************)
(* The operation document and the collaborators that change it.            *)
(***************************************************************************)
FieldName(op, ref) == op.fields[ref].name
FieldSet(op, ref) == op.fields[ref].owner
ChildSet(op, ref) == op.fields[ref].child
TypeOfSet(op, ss) == op.sets[ss].type
ParentField(op, ss) == op.sets[ss].field

RECURSIVE PathOfSet(_, _)
PathOfSet(op, ss) ==
    IF ParentField(op, ss) = 0 THEN <<"query">>
    ELSE Append(PathOfSet(op, FieldSet(op, ParentField(op, ss))),
                FieldName(op, ParentField(op, ss)))

SelNames(sel) ==
    CASE sel = "id" -> <<"id">>
      [] sel = "uid" -> <<"uid">>
      [] sel = "zid" -> <<"zid">>
      [] sel = "id uid" -> <<"id", "uid">>
      [] sel = "w" -> <<"w">>
      [] sel = "b" -> <<"b">>
      [] OTHER -> <<>>

RequiredFieldsFragment(typeName, sel, includeTypename) ==
    [ok |-> SelNames(sel) # <<>>,
     names |-> (IF includeTypename THEN <<typeNameField>> ELSE <<>>) \o SelNames(sel)]

RefOfName(op, ss, name) ==
    CHOOSE r \in {op.sets[ss].refs[i] : i \in 1..Len(op.sets[ss].refs)} : FieldName(op, r) = name
HasName(op, ss, name) ==
    \E i \in 1..Len(op.sets[ss].refs) : FieldName(op, op.sets[ss].refs[i]) = name

RECURSIVE addRequiredFields(_, _, _, _)
addRequiredFields(r, ss, names, i) ==
    IF i > Len(names) THEN r
    ELSE IF HasName(r.op, ss, names[i])
         THEN Then([r EXCEPT !.required = Append(@, RefOfName(r.op, ss, names[i]))],
                   LAMBDA r1 : addRequiredFields(r1, ss, names, i + 1))
         ELSE LET new == Len(r.op.fields) + 1
                  op2 == [r.op EXCEPT
                            !.fields = Append(@, [name |-> names[i], owner |-> ss, child |-> 0]),
                            !.sets[ss].refs = Append(@, new)]
              IN  Then([op |-> op2, skip |-> Append(r.skip, new),
                        required |-> Append(r.required, new)],
                       LAMBDA r1 : addRequiredFields(r1, ss, names, i + 1))

Suggestions(typeName, fieldName) == Lookup(cfg.suggestions, <<typeName, fieldName>>, <<>>)

SelectedHashes(suggestions) ==
    LET idx == {i \in 1..Len(suggestions) : suggestions[i].Selected}
        RECURSIVE pick(_)
        pick(i) == IF i > Len(suggestions) THEN <<>>
                   ELSE IF i \in idx THEN <<suggestions[i].DataSourceHash>> \o pick(i + 1)
                   ELSE pick(i + 1)
    IN  pick(1)

ParentSuggestions(op, fieldRef) ==
    LET pf == ParentField(op, FieldSet(op, fieldRef))
    IN  IF pf = 0 THEN <<>>
        ELSE Suggestions(TypeOfSet(op, FieldSet(op, pf)), FieldName(op, pf))

(***************************************************************************)
(* The visitor's methods, as functions of S = the visitor c, the walker,   *)
(* the operation document and the history trail.                           *)
(***************************************************************************)
Here == [c |-> c, walker |-> walker, operation |-> operation, trail |-> trail]

SetHere(S) ==
    /\ c' = S.c
    /\ walker' = S.walker
    /\ operation' = S.operation
    /\ trail' = S.trail

shouldRevisit(v) == v.hasNewFields \/ v.hasUnresolvedFields

currentSelectionSet(v) ==
    IF Len(v.selectionSetRefs) = 0 THEN InvalidRef
    ELSE v.selectionSetRefs[Len(v.selectionSetRefs)]

StopWithInternalErr(S, msg) ==
    [S EXCEPT !.walker.stop = TRUE,
              !.walker.err = IF @ = "none" THEN msg ELSE @]
Stop(S) == [S EXCEPT !.walker.stop = TRUE]

IndexOfSelectionSet(configs, sel) ==
    LET hit == {i \in 1..Len(configs) : configs[i].selectionSet = sel}
    IN  IF hit = {} THEN 0 ELSE CHOOSE i \in hit : \A j \in hit : i <= j
IndexOfDsHash(configs, dsHash) ==
    LET hit == {i \in 1..Len(configs) : configs[i].dsHash = dsHash}
    IN  IF hit = {} THEN 0 ELSE CHOOSE i \in hit : \A j \in hit : i <= j

addPendingFieldRequirements(S, requestedByFieldRef, dsHash, fieldConfiguration, currentPath) ==
    LET ss == currentSelectionSet(S.c)
        requirements == Lookup(S.c.pendingFieldRequirements, ss,
                               [existsTracker |-> {}, requirementConfigs |-> <<>>])
        existsKey == <<dsHash, fieldConfiguration.SelectionSet>>
        config == [dsHash |-> dsHash, path |-> currentPath,
                   selectionSet |-> fieldConfiguration.SelectionSet,
                   requestedByFieldRefs |-> <<requestedByFieldRef>>]
        i == IndexOfSelectionSet(requirements.requirementConfigs, fieldConfiguration.SelectionSet)
        updated ==
            IF existsKey \notin requirements.existsTracker
            THEN [existsTracker |-> requirements.existsTracker \cup {existsKey},
                  requirementConfigs |-> Append(requirements.requirementConfigs, config)]
            ELSE IF i # 0 /\ ~Contains(requirements.requirementConfigs[i].requestedByFieldRefs,
                                       requestedByFieldRef)
                 THEN [requirements EXCEPT
                          !.requirementConfigs[i].requestedByFieldRefs =
                              Append(@, requestedByFieldRef)]
                 ELSE requirements
        fieldKey == <<requestedByFieldRef, dsHash>>
    IN  [S EXCEPT !.c.pendingFieldRequirements = Put(@, ss, updated),
                  !.c.fieldRequirementsConfigs =
                      Put(@, fieldKey, Append(Lookup(@, fieldKey, <<>>), fieldConfiguration))]

\* The tracker is never consulted: every call appends a requirement.
KeyRequirementExists_Never(requirements, existsKey) == existsKey # existsKey

\* _, exists := requirements.existsTracker[existsKey]
KeyRequirementExists(requirements, existsKey) == existsKey \in requirements.existsTracker

addPendingKeyRequirements(S, requestedByFieldRef, dsHash, possibleFieldConfigurations, isInterfaceObject, parentPath, parentDSHashes) ==
    LET ss == currentSelectionSet(S.c)
        requirements == Lookup(S.c.pendingKeyRequirements, ss,
                               [existsTracker |-> {}, parentDSHashes |-> parentDSHashes,
                                requirementConfigs |-> <<>>])
        config == [dsHash |-> dsHash, path |-> parentPath,
                   isInterfaceObject |-> isInterfaceObject,
                   possibleKeys |-> possibleFieldConfigurations,
                   requestedByFieldRefs |-> <<requestedByFieldRef>>]
        i == IndexOfDsHash(requirements.requirementConfigs, dsHash)
        updated ==
            IF ~KeyRequirementExists(requirements, dsHash)
            THEN [requirements EXCEPT
                     !.existsTracker = @ \cup {dsHash},
                     !.requirementConfigs = Append(@, config)]
            ELSE IF i # 0 /\ ~Contains(requirements.requirementConfigs[i].requestedByFieldRefs,
                                       requestedByFieldRef)
                 THEN [requirements EXCEPT
                          !.requirementConfigs[i].requestedByFieldRefs =
                              Append(@, requestedByFieldRef)]
                 ELSE requirements
    IN  [S EXCEPT !.c.pendingKeyRequirements = Put(@, ss, updated)]

handleFieldRequiredByRequires(S, fieldRef, typeName, fieldName, currentPath, dsConfig) ==
    LET fieldKey == <<fieldRef, dsConfig.hash>>
        S1 == [S EXCEPT !.c.visitedFieldsRequiresChecks = @ \cup {fieldKey}]
        r == RequiredFieldsByRequires(dsConfig, typeName, fieldName)
    IN  IF fieldKey \in S.c.visitedFieldsRequiresChecks THEN S
        ELSE IF fieldName = typeNameField THEN S1
        ELSE IF ~r.exists THEN S1
        ELSE [addPendingFieldRequirements(S1, fieldRef, dsConfig.hash, r.cfg, currentPath)
                 EXCEPT !.c.hasNewFields = TRUE]

handleFieldsRequiredByKey(S, fieldRef, parentPath, typeName, fieldName, dsConfig) ==
    LET fieldKey == <<fieldRef, dsConfig.hash>>
        S1 == [S EXCEPT !.c.visitedFieldsKeyChecks = @ \cup {fieldKey}]
        hasRequiresCondition == RequiredFieldsByRequires(dsConfig, typeName, fieldName).exists
        selectedParentsDSHashes == SelectedHashes(ParentSuggestions(S.operation, fieldRef))
        entityInterface == HasEntityInterface(dsConfig, typeName)
        interfaceObject == HasInterfaceObject(dsConfig, typeName)
        sameAsParentDS == /\ Len(selectedParentsDSHashes) = 1
                          /\ selectedParentsDSHashes[1] = dsConfig.hash
        resolvable == RequiredFieldsByKey(dsConfig, typeName)
        keyConfigurations ==
            IF Len(resolvable) = 0 /\ hasRequiresCondition
            THEN resolvable \o NonResolvableKeys(dsConfig, typeName)
            ELSE resolvable
        S2 == [S1 EXCEPT !.trail.hops =
                  IF Len(selectedParentsDSHashes) = 1 /\ ~sameAsParentDS
                  THEN @ \cup {[ss |-> currentSelectionSet(S.c), ref |-> fieldRef,
                                dsHash |-> dsConfig.hash]}
                  ELSE @]
    IN  IF fieldKey \in S.c.visitedFieldsKeyChecks THEN S
        ELSE IF Suggestions(typeName, fieldName) = <<>> THEN S1
        ELSE IF fieldName = typeNameField /\ ~entityInterface THEN S1
        ELSE IF sameAsParentDS /\ ~hasRequiresCondition THEN S1
        ELSE IF Len(keyConfigurations) = 0 /\ ~sameAsParentDS THEN S2
        ELSE IF sameAsParentDS
             THEN IF Len(keyConfigurations) = 0
                  THEN [S1 EXCEPT !.walker.next = "panic"]
                  ELSE [addPendingKeyRequirements(S1, fieldRef, dsConfig.hash,
                                                  <<keyConfigurations[1]>>, FALSE,
                                                  parentPath, selectedParentsDSHashes)
                           EXCEPT !.c.hasNewFields = TRUE]
        ELSE [addPendingKeyRequirements(S2, fieldRef, dsConfig.hash, keyConfigurations,
                                        interfaceObject, parentPath, selectedParentsDSHashes)
                 EXCEPT !.c.hasNewFields = TRUE]

rewriteSelectionSetOfFieldWithInterfaceType_NoStop(S, fieldRef, ds) ==
    LET S1 == [S EXCEPT !.c.visitedFieldsAbstractChecks = @ \cup {fieldRef}]
        outcome == Lookup(cfg.rewrites, FieldName(S.operation, fieldRef), "same")
    IN  IF fieldRef \in S.c.visitedFieldsAbstractChecks THEN S
        ELSE IF ~ds.upstreamSchema THEN S1
        ELSE IF outcome = "error" THEN StopWithInternalErr(S1, "rewrite failed")
        ELSE IF outcome = "same" THEN S1
        ELSE [S1 EXCEPT !.c.hasNewFields = TRUE,
                        !.operation.rewritten = @ \cup {fieldRef}]

rewriteSelectionSetOfFieldWithInterfaceType(S, fieldRef, ds) ==
    LET S1 == [S EXCEPT !.c.visitedFieldsAbstractChecks = @ \cup {fieldRef}]
        outcome == Lookup(cfg.rewrites, FieldName(S.operation, fieldRef), "same")
    IN  IF fieldRef \in S.c.visitedFieldsAbstractChecks THEN S
        ELSE IF ~ds.upstreamSchema THEN S1
        ELSE IF outcome = "error" THEN StopWithInternalErr(S1, "rewrite failed")
        ELSE IF outcome = "same" THEN S1
        ELSE Stop([S1 EXCEPT !.c.hasNewFields = TRUE,
                             !.operation.rewritten = @ \cup {fieldRef}])

RECURSIVE EnterFieldLoop(_, _, _, _)
EnterFieldLoop(S, fieldRef, suggestions, i) ==
    LET op == S.operation
        fieldName == FieldName(op, fieldRef)
        typeName == TypeOfSet(op, FieldSet(op, fieldRef))
        parentPath == PathOfSet(op, FieldSet(op, fieldRef))
        currentPath == Append(parentPath, fieldName)
        suggestion == suggestions[i]
        ds == DataSourceAt(suggestion.DataSourceHash)
    IN  IF i > Len(suggestions) THEN S
        ELSE IF ~suggestion.Selected THEN EnterFieldLoop(S, fieldRef, suggestions, i + 1)
        ELSE IF suggestion.IsRequiredKeyField THEN EnterFieldLoop(S, fieldRef, suggestions, i + 1)
        ELSE IF ~HasDataSource(suggestion.DataSourceHash)
             THEN StopWithInternalErr(S, "we should always have a datasource for a suggestion")
        ELSE Then(handleFieldRequiredByRequires(S, fieldRef, typeName, fieldName,
                                                currentPath, ds),
        LAMBDA S1 :
             Then(handleFieldsRequiredByKey(S1, fieldRef, parentPath, typeName, fieldName, ds),
        LAMBDA S2 :
             IF S2.walker.next = "panic" THEN S2
             ELSE Then(rewriteSelectionSetOfFieldWithInterfaceType(S2, fieldRef, ds),
        LAMBDA S3 :
             EnterFieldLoop(S3, fieldRef, suggestions, i + 1))))

RECURSIVE AppendForEach(_, _, _, _)
AppendForEach(m, refs, dsHash, values) ==
    IF refs = <<>> THEN m
    ELSE LET fieldKey == <<Head(refs), dsHash>>
         IN  Then(Put(m, fieldKey, Lookup(m, fieldKey, <<>>) \o values),
                  LAMBDA m1 : AppendForEach(m1, Tail(refs), dsHash, values))

Without(refs, excluded) == SelectSeq(refs, LAMBDA r : ~Contains(excluded, r))

RECURSIVE PutEach(_, _, _)
PutEach(m, keys, v) ==
    IF keys = <<>> THEN m
    ELSE Then(Put(m, Head(keys), v), LAMBDA m1 : PutEach(m1, Tail(keys), v))

addFieldRequirementsToOperation(S, selectionSetRef, requirements) ==
    LET typeName == TypeOfSet(S.operation, selectionSetRef)
        key == RequiredFieldsFragment(typeName, requirements.selectionSet, FALSE)
    IN  IF ~key.ok THEN StopWithInternalErr(S, "failed to parse required fields")
        ELSE Then(addRequiredFields([op |-> S.operation, skip |-> <<>>, required |-> <<>>],
                                    selectionSetRef, key.names, 1),
        LAMBDA added :
             [S EXCEPT
                !.operation = added.op,
                !.c.skipFieldsRefs = @ \o added.skip,
                !.c.fieldDependsOn = AppendForEach(@, requirements.requestedByFieldRefs,
                                                   requirements.dsHash, added.required),
                !.trail.injected = Append(@, [kind |-> "requires", ss |-> selectionSetRef,
                                              dsHash |-> requirements.dsHash,
                                              selectionSet |-> requirements.selectionSet,
                                              typename |-> FALSE,
                                              landedTo |-> requirements.dsHash,
                                              requestedBy |-> requirements.requestedByFieldRefs,
                                              required |-> added.required])])

RECURSIVE processPendingFieldConfigs(_, _, _)
processPendingFieldConfigs(S, selectionSetRef, configs) ==
    IF configs = <<>> THEN S
    ELSE Then(addFieldRequirementsToOperation(S, selectionSetRef, Head(configs)),
              LAMBDA S1 : processPendingFieldConfigs(S1, selectionSetRef, Tail(configs)))

processPendingFieldRequirements_NoDelete(S, selectionSetRef) ==
    IF ~Has(S.c.pendingFieldRequirements, selectionSetRef) THEN S
    ELSE processPendingFieldConfigs(S, selectionSetRef,
             S.c.pendingFieldRequirements[selectionSetRef].requirementConfigs)

processPendingFieldRequirements(S, selectionSetRef) ==
    IF ~Has(S.c.pendingFieldRequirements, selectionSetRef) THEN S
    ELSE processPendingFieldConfigs(
             [S EXCEPT !.c.pendingFieldRequirements = Del(@, selectionSetRef)],
             selectionSetRef,
             S.c.pendingFieldRequirements[selectionSetRef].requirementConfigs)

addKeyRequirementsToOperation(S, selectionSetRef, typeName, requirements, landedTo, fieldConfiguration) ==
    LET requirementsFromInterfaceObject == requirements.isInterfaceObject
        requirementsToInterfaceObject == HasInterfaceObject(landedTo, typeName)
        dissalowTypeName == requirementsFromInterfaceObject /\ requirementsToInterfaceObject
        key == RequiredFieldsFragment(typeName, fieldConfiguration.SelectionSet, ~dissalowTypeName)
    IN  IF ~key.ok THEN StopWithInternalErr(S, "failed to parse required fields")
        ELSE Then(addRequiredFields([op |-> S.operation, skip |-> <<>>, required |-> <<>>],
                                    selectionSetRef, key.names, 1),
        LAMBDA added :
             LET requesters == Without(requirements.requestedByFieldRefs, added.required) IN
             [S EXCEPT
                !.operation = added.op,
                !.c.skipFieldsRefs = @ \o added.skip,
                !.c.fieldDependsOn = AppendForEach(@, requesters, requirements.dsHash,
                                                   added.required),
                !.c.fieldRequirementsConfigs = AppendForEach(@, requesters, requirements.dsHash,
                                                             <<fieldConfiguration>>),
                !.c.fieldLandedTo = PutEach(@, added.required, landedTo.hash),
                !.trail.injected = Append(@, [kind |-> "key", ss |-> selectionSetRef,
                                              dsHash |-> requirements.dsHash,
                                              selectionSet |-> fieldConfiguration.SelectionSet,
                                              typename |-> ~dissalowTypeName,
                                              landedTo |-> landedTo.hash,
                                              requestedBy |-> requirements.requestedByFieldRefs,
                                              required |-> added.required])])

\* The first (data source, possible key) pair, in the order of c.dataSources
\* and of requirements.possibleKeys, such that the data source is among
\* dsHashes and has the key; <<0, 0>> when there is none.
FirstMatch(requirements, dsHashes) ==
    LET pairs == {p \in (1..Len(cfg.dataSources)) \X (1..Len(requirements.possibleKeys)) :
                     /\ Contains(dsHashes, cfg.dataSources[p[1]].hash)
                     /\ HasKeyRequirement(cfg.dataSources[p[1]],
                                          requirements.possibleKeys[p[2]].TypeName,
                                          requirements.possibleKeys[p[2]].SelectionSet)}
    IN  IF pairs = {} THEN <<0, 0>>
        ELSE CHOOSE p \in pairs :
                 \A q \in pairs : p[1] < q[1] \/ (p[1] = q[1] /\ p[2] <= q[2])

matchDataSourcesByKeyConfiguration(S, selectionSetRef, requirements, dsHashes) ==
    LET m == FirstMatch(requirements, dsHashes)
        possibleRequiredFieldConfig == requirements.possibleKeys[m[2]]
    IN  IF m = <<0, 0>> THEN [S |-> S, matched |-> FALSE]
        ELSE [S |-> addKeyRequirementsToOperation(S, selectionSetRef,
                                                  possibleRequiredFieldConfig.TypeName,
                                                  requirements, cfg.dataSources[m[1]],
                                                  possibleRequiredFieldConfig),
              matched |-> TRUE]

\* One iteration of the loop "for hasPendingRequirements": r carries the
\* state S and the two slices the iteration builds.
RECURSIVE keyRound(_, _, _, _, _)
keyRound(r, selectionSetRef, pendingRequirements, availableHashes, i) ==
    IF i > Len(pendingRequirements) THEN r
    ELSE Then(matchDataSourcesByKeyConfiguration(r.S, selectionSetRef,
                                                 pendingRequirements[i], availableHashes),
         LAMBDA m :
              Then(IF m.matched
                   THEN [S |-> m.S,
                         newAvailableHashes |-> Append(r.newAvailableHashes,
                                                       pendingRequirements[i].dsHash),
                         newPendingRequirements |-> r.newPendingRequirements]
                   ELSE [S |-> m.S,
                         newAvailableHashes |-> r.newAvailableHashes,
                         newPendingRequirements |-> Append(r.newPendingRequirements,
                                                           pendingRequirements[i])],
         LAMBDA r1 :
              keyRound(r1, selectionSetRef, pendingRequirements, availableHashes, i + 1)))

(***************************************************************************)
(* Planning inputs: a federation of up to three data sources over          *)
(*   type Query { a: A }   type A { id uid zid b c f f2 g w h: I }         *)
(* and operations { a { ... } }.  The parent field a is planned on ds1.    *)
(***************************************************************************)
Sug(ds) == <<[DataSourceHash |-> ds, Selected |-> TRUE, IsRequiredKeyField |-> FALSE]>>
KeySug(ds) == <<[DataSourceHash |-> ds, Selected |-> TRUE, IsRequiredKeyField |-> TRUE]>>
Unselected(ds) == <<[DataSourceHash |-> ds, Selected |-> FALSE, IsRequiredKeyField |-> FALSE]>>

RECURSIVE KeysOf(_, _)
KeysOf(typeName, sels) ==
    IF sels = <<>> THEN <<>>
    ELSE <<FederationFieldConfiguration(typeName, "", Head(sels))>> \o KeysOf(typeName, Tail(sels))

OnType(typeName, sels) == IF sels = <<>> THEN <<>> ELSE Put(<<>>, typeName, KeysOf(typeName, sels))

DataSource(hash, keys, nrkeys, requires, io, ei, upstream) ==
    [hash |-> hash, keys |-> OnType("A", keys), nrkeys |-> OnType("A", nrkeys),
     requires |-> requires,
     interfaceObjects |-> IF io THEN {"A"} ELSE {},
     entityInterfaces |-> IF ei THEN {"A"} ELSE {},
     upstreamSchema |-> upstream]

\* { a { n1 n2 } }, and { a { h { x } n2 } } when n1 is the abstract field h
Operation(names) ==
    [fields |-> <<[name |-> "a", owner |-> 1, child |-> 2]>>
                \o [i \in 1..Len(names) |->
                       [name |-> names[i], owner |-> 2,
                        child |-> IF names[i] = "h" THEN 3 ELSE 0]]
                \o (IF Contains(names, "h") THEN <<[name |-> "x", owner |-> 3, child |-> 0]>>
                    ELSE <<>>),
     sets |-> <<[type |-> "Query", field |-> 0, refs |-> <<1>>],
                [type |-> "A", field |-> 1, refs |-> [i \in 1..Len(names) |-> i + 1]]>>
              \o (IF Contains(names, "h")
                  THEN <<[type |-> "I",
                          field |-> 1 + (CHOOSE i \in 1..Len(names) : names[i] = "h"),
                          refs |-> <<Len(names) + 2>>]>>
                  ELSE <<>>),
     rewritten |-> {}]

KeyFieldSuggestions ==
    [k \in {<<"A", "id">>, <<"A", "uid">>, <<"A", "zid">>} |-> KeySug("ds1")]

Merge(f, g) == [x \in DOMAIN f \cup DOMAIN g |-> IF x \in DOMAIN f THEN f[x] ELSE g[x]]

NoRequires == <<>>

KeyScenarios ==
    { [operation |-> Operation(<<"b", "c">>),
       dataSources |-> <<DataSource("ds1", <<"id">>, <<>>, NoRequires, io1, FALSE, FALSE),
                         DataSource("ds2", k2, <<>>, NoRequires, io2, FALSE, FALSE),
                         DataSource("ds3", k3, <<>>, NoRequires, FALSE, FALSE, FALSE)>>,
       suggestions |-> Merge([k \in {<<"Query", "a">>, <<"A", "b">>, <<"A", "c">>,
                                     <<"A", typeNameField>>} |->
                                 CASE k = <<"A", "b">> -> b
                                   [] k = <<"A", "c">> -> Sug(dsc)
                                   [] k = <<"A", typeNameField>> -> KeySug("ds1")
                                   [] OTHER -> Sug("ds1")],
                             KeyFieldSuggestions),
       rewrites |-> <<>>] :
       b \in {Sug("ds1"), Sug("ds2"), Unselected("ds1") \o Sug("ds2"), Sug("ds2") \o Sug("ds3"),
              Sug("ds9"), KeySug("ds9"), Sug("ds9") \o Sug("ds2"), Sug("ds2") \o Sug("ds9")},
       dsc \in {"ds2", "ds3"},
       k2 \in {<<>>, <<"id">>, <<"uid", "id">>, <<"zid">>},
       k3 \in {<<"uid">>, <<"id">>, <<"id uid">>},
       io1 \in BOOLEAN, io2 \in BOOLEAN }

RequiresScenarios ==
    { [operation |-> Operation(names),
       dataSources |-> <<DataSource("ds1", k1, nr1,
                                    IF dsf = "ds1" THEN Put(<<>>, <<"A", "f">>, sel)
                                    ELSE NoRequires,
                                    io1, FALSE, FALSE),
                         DataSource("ds2", <<"id">>, <<>>,
                                    Merge(IF dsf = "ds2" THEN Put(<<>>, <<"A", "f">>, sel)
                                          ELSE NoRequires,
                                          Put(<<>>, <<"A", "f2">>, "w")),
                                    FALSE, FALSE, FALSE)>>,
       suggestions |-> Merge([k \in {<<"Query", "a">>, <<"A", "f">>, <<"A", "f2">>,
                                     <<"A", "g">>, <<"A", "w">>, <<"A", "b">>,
                                     <<"A", typeNameField>>} |->
                                 CASE k = <<"A", "f">> -> Sug(dsf)
                                   [] k = <<"A", "f2">> -> Sug("ds2")
                                   [] k = <<"A", "g">> -> Sug("ds2")
                                   [] k = <<"A", "w">> -> Sug(dsw)
                                   [] k = <<"A", "b">> -> Sug("ds1")
                                   [] k = <<"A", typeNameField>> -> KeySug("ds1")
                                   [] OTHER -> Sug("ds1")],
                             KeyFieldSuggestions),
       rewrites |-> <<>>] :
       names \in {<<"f", "g">>, <<"f", "f2">>, <<"f", "w">>},
       dsf \in {"ds1", "ds2"}, dsw \in {"ds1", "ds2"},
       sel \in {"w", "b", "?"},
       k1 \in {<<"id">>, <<>>}, nr1 \in {<<>>, <<"id">>}, io1 \in BOOLEAN }

TypenameScenarios ==
    { [operation |-> Operation(<<typeNameField, "b">>),
       dataSources |-> <<DataSource("ds1", <<"id">>, <<>>, NoRequires, FALSE, FALSE, FALSE),
                         DataSource("ds2", <<"id">>, <<>>, NoRequires, io, ei, FALSE)>>,
       suggestions |-> Merge([k \in {<<"Query", "a">>, <<"A", "b">>,
                                     <<"A", typeNameField>>} |->
                                 CASE k = <<"A", "b">> -> Sug(dsb)
                                   [] k = <<"A", typeNameField>> -> Sug("ds2")
                                   [] OTHER -> Sug("ds1")],
                             KeyFieldSuggestions),
       rewrites |-> <<>>] :
       dsb \in {"ds1", "ds2"}, io \in BOOLEAN, ei \in BOOLEAN }

RewriteScenarios ==
    { [operation |-> Operation(names),
       dataSources |-> <<DataSource("ds1", <<"id">>, <<>>, NoRequires, FALSE, FALSE, up),
                         DataSource("ds2", <<"id">>, <<>>,
                                    IF req THEN Put(<<>>, <<"A", "b">>, "id") ELSE NoRequires,
                                    FALSE, FALSE, up)>>,
       suggestions |-> Merge([k \in {<<"Query", "a">>, <<"A", "h">>, <<"A", "b">>,
                                     <<"I", "x">>, <<"A", typeNameField>>} |->
                                 CASE k = <<"A", "h">> -> h
                                   [] k = <<"A", "b">> -> Sug("ds2")
                                   [] k = <<"A", typeNameField>> -> KeySug("ds1")
                                   [] OTHER -> Sug("ds1")],
                             KeyFieldSuggestions),
       rewrites |-> Put(Put(<<>>, "h", outcome), "x", inner)] :
       h \in {Sug("ds1"), Sug("ds1") \o Sug("ds2"), Sug("ds1") \o Sug("ds9")},
       outcome \in {"same", "rewritten", "error"},
       inner \in {"same", "rewritten"},
       up \in BOOLEAN,
       names \in {<<"h", "b">>, <<"b", "h">>}, req \in BOOLEAN }

\* The parent field a is selected on two data sources, ds1 and ds3.
ParentScenarios ==
    { [operation |-> Operation(<<"b", "c">>),
       dataSources |-> <<DataSource("ds1", <<"id">>, <<>>, NoRequires, FALSE, FALSE, FALSE),
                         DataSource("ds2", k2, <<>>, NoRequires, FALSE, FALSE, FALSE),
                         DataSource("ds3", k3, <<>>, NoRequires, FALSE, FALSE, FALSE)>>,
       suggestions |-> Merge([k \in {<<"Query", "a">>, <<"A", "b">>, <<"A", "c">>,
                                     <<"A", typeNameField>>} |->
                                 CASE k = <<"Query", "a">> -> Sug("ds1") \o Sug("ds3")
                                   [] k = <<"A", "b">> -> Sug("ds2")
                                   [] k = <<"A", "c">> -> Sug(dsc)
                                   [] OTHER -> KeySug("ds1")],
                             KeyFieldSuggestions),
       rewrites |-> <<>>] :
       dsc \in {"ds1", "ds2"},
       k2 \in {<<"uid", "id">>, <<"id", "uid">>, <<"zid">>},
       k3 \in {<<"uid">>, <<"id">>} }

\* Two data sources declare @requires on fields of the same selection set,
\* with the same selection set string when sel1 = "w".
SharedRequiresScenarios ==
    { [operation |-> Operation(<<"f", "f2">>),
       dataSources |-> <<DataSource("ds1", <<"id">>, <<>>, Put(<<>>, <<"A", "f">>, sel1),
                                    FALSE, FALSE, FALSE),
                         DataSource("ds2", <<"id">>, <<>>,
                                    Merge(Put(<<>>, <<"A", "f">>, "w"),
                                          Put(<<>>, <<"A", "f2">>, "w")),
                                    FALSE, FALSE, FALSE)>>,
       suggestions |-> Merge([k \in {<<"Query", "a">>, <<"A", "f">>, <<"A", "f2">>,
                                     <<"A", "w">>, <<"A", "b">>,
                                     <<"A", typeNameField>>} |->
                                 CASE k = <<"A", "f">> -> f
                                   [] k = <<"A", "f2">> -> Sug("ds2")
                                   [] k = <<"A", "w">> -> Sug("ds1")
                                   [] k = <<"A", "b">> -> Sug("ds1")
                                   [] k = <<"A", typeNameField>> -> KeySug("ds1")
                                   [] OTHER -> Sug("ds1")],
                             KeyFieldSuggestions),
       rewrites |-> <<>>] :
       f \in {Sug("ds1") \o Sug("ds2"), Sug("ds2") \o Sug("ds1"), Sug("ds2")},
       sel1 \in {"w", "b"} }

\* Three sibling fields on three data sources whose keys can form a chain:
\* ds2 is reached from the parent's ds1, ds3 from ds2, ds4 from ds3.
ChainScenarios ==
    { [operation |-> Operation(names),
       dataSources |-> <<DataSource("ds1", <<"id">>, <<>>, NoRequires, FALSE, FALSE, FALSE),
                         DataSource("ds2", <<"uid", "id">>, <<>>, NoRequires, FALSE, FALSE, FALSE),
                         DataSource("ds3", k3, <<>>, NoRequires, FALSE, FALSE, FALSE),
                         DataSource("ds4", k4, <<>>, NoRequires, FALSE, FALSE, FALSE)>>,
       suggestions |-> Merge([k \in {<<"Query", "a">>, <<"A", "b">>, <<"A", "c">>,
                                     <<"A", "d">>, <<"A", typeNameField>>} |->
                                 CASE k = <<"A", "b">> -> Sug("ds2")
                                   [] k = <<"A", "c">> -> Sug("ds3")
                                   [] k = <<"A", "d">> -> Sug("ds4")
                                   [] k = <<"A", typeNameField>> -> KeySug("ds1")
                                   [] OTHER -> Sug("ds1")],
                             KeyFieldSuggestions),
       rewrites |-> <<>>] :
       names \in {<<"b", "c", "d">>, <<"d", "c", "b">>},
       k3 \in {<<"zid", "uid">>, <<"uid">>},
       k4 \in {<<"zid">>, <<"uid">>, <<"id">>} }

PlanScenarios ==
    KeyScenarios \cup RequiresScenarios \cup TypenameScenarios \cup RewriteScenarios
    \cup ParentScenarios \cup SharedRequiresScenarios \cup ChainScenarios

(***************************************************************************)
(* The planner's state machine: the walker calls the visitor's handlers in *)
(* document order; the planner walks again while shouldRevisit().          *)
(***************************************************************************)
NoKeyLoop ==
    [selectionSetRef |-> InvalidRef,
     configs |-> [parentDSHashes |-> <<>>, requirementConfigs |-> <<>>],
     availableHashes |-> <<>>, pendingRequirements |-> <<>>,
     hasPendingRequirements |-> FALSE, matchedNothing |-> FALSE, oddRounds |-> FALSE]

PlanInit ==
    /\ cfg = [dataSources |-> <<>>, suggestions |-> <<>>, rewrites |-> <<>>]
    /\ operation = [fields |-> <<>>, sets |-> <<>>, rewritten |-> {}]
    /\ c = [hasNewFields |-> FALSE, hasUnresolvedFields |-> FALSE, secondaryRun |-> FALSE,
            selectionSetRefs |-> <<>>, skipFieldsRefs |-> <<>>,
            pendingKeyRequirements |-> <<>>, pendingFieldRequirements |-> <<>>,
            visitedFieldsRequiresChecks |-> {}, visitedFieldsKeyChecks |-> {},
            visitedFieldsAbstractChecks |-> {},
            fieldDependsOn |-> <<>>, fieldRequirementsConfigs |-> <<>>,
            fieldLandedTo |-> <<>>]
    /\ walker = [next |-> "new", stack |-> <<>>, target |-> 0, stop |-> FALSE, err |-> "none"]
    /\ keyLoop = NoKeyLoop
    /\ trail = [hops |-> {}, injected |-> <<>>, left |-> {}, aborted |-> {}]

\* The planner is given an operation, the data sources and the suggestions.
Plan ==
    /\ walker.next = "new"
    /\ \E sc \in PlanScenarios :
          /\ cfg' = [dataSources |-> sc.dataSources, suggestions |-> sc.suggestions,
                     rewrites |-> sc.rewrites]
          /\ operation' = sc.operation
    /\ walker' = [walker EXCEPT !.next = "enterDoc"]
    /\ UNCHANGED <<c, keyLoop, trail>>

EnterDocument_ClearsPending ==
    /\ walker.next = "enterDoc"
    /\ c' = IF c.secondaryRun
            THEN [c EXCEPT !.hasNewFields = FALSE, !.hasUnresolvedFields = FALSE,
                           !.selectionSetRefs = <<>>,
                           !.pendingKeyRequirements = <<>>,
                           !.pendingFieldRequirements = <<>>]
            ELSE [c EXCEPT !.hasNewFields = FALSE, !.hasUnresolvedFields = FALSE,
                           !.selectionSetRefs = <<>>,
                           !.visitedFieldsAbstractChecks = {},
                           !.visitedFieldsRequiresChecks = {},
                           !.visitedFieldsKeyChecks = {},
                           !.pendingKeyRequirements = <<>>,
                           !.pendingFieldRequirements = <<>>,
                           !.fieldDependsOn = <<>>,
                           !.fieldRequirementsConfigs = <<>>,
                           !.fieldLandedTo = <<>>]
    /\ walker' = [walker EXCEPT !.next = "enterSS", !.target = 1, !.stack = <<>>,
                                !.stop = FALSE]
    /\ UNCHANGED <<cfg, operation, keyLoop, trail>>

EnterDocument_ClearsAlways ==
    /\ walker.next = "enterDoc"
    /\ c' = [c EXCEPT !.hasNewFields = FALSE, !.hasUnresolvedFields = FALSE,
                      !.selectionSetRefs = <<>>,
                      !.visitedFieldsAbstractChecks = {},
                      !.visitedFieldsRequiresChecks = {},
                      !.visitedFieldsKeyChecks = {},
                      !.pendingKeyRequirements = <<>>,
                      !.pendingFieldRequirements = <<>>,
                      !.fieldDependsOn = <<>>,
                      !.fieldRequirementsConfigs = <<>>,
                      !.fieldLandedTo = <<>>]
    /\ walker' = [walker EXCEPT !.next = "enterSS", !.target = 1, !.stack = <<>>,
                                !.stop = FALSE]
    /\ UNCHANGED <<cfg, operation, keyLoop, trail>>

EnterDocument ==
    /\ walker.next = "enterDoc"
    /\ c' = IF c.secondaryRun
            THEN [c EXCEPT !.hasNewFields = FALSE, !.hasUnresolvedFields = FALSE,
                           !.selectionSetRefs = <<>>]
            ELSE [c EXCEPT !.hasNewFields = FALSE, !.hasUnresolvedFields = FALSE,
                           !.selectionSetRefs = <<>>,
                           !.visitedFieldsAbstractChecks = {},
                           !.visitedFieldsRequiresChecks = {},
                           !.visitedFieldsKeyChecks = {},
                           !.pendingKeyRequirements = <<>>,
                           !.pendingFieldRequirements = <<>>,
                           !.fieldDependsOn = <<>>,
                           !.fieldRequirementsConfigs = <<>>,
                           !.fieldLandedTo = <<>>]
    /\ walker' = [walker EXCEPT !.next = "enterSS", !.target = 1, !.stack = <<>>,
                                !.stop = FALSE]
    /\ UNCHANGED <<cfg, operation, keyLoop, trail>>

EnterSelectionSet ==
    /\ walker.next = "enterSS"
    /\ c' = [c EXCEPT !.selectionSetRefs = Append(@, walker.target)]
    /\ walker' = [walker EXCEPT !.next = "field",
                                !.stack = Append(@, [ss |-> walker.target, i |-> 1])]
    /\ trail' = [trail EXCEPT !.left = @ \ {walker.target}]
    /\ UNCHANGED <<cfg, operation, keyLoop>>

WalkerTop == walker.stack[Len(walker.stack)]
AtField ==
    /\ walker.next = "field"
    /\ WalkerTop.i <= Len(operation.sets[WalkerTop.ss].refs)
AtLeave ==
    /\ walker.next = "field"
    /\ WalkerTop.i > Len(operation.sets[WalkerTop.ss].refs)

\* The requirements pending in the visitor, each with the number of
\* requirements injected so far.
Pending(S) ==
    UNION {{[kind |-> "key", ss |-> ss, selectionSet |-> "",
             dsHash |-> S.c.pendingKeyRequirements[ss].requirementConfigs[i].dsHash,
             requestedBy |->
                 S.c.pendingKeyRequirements[ss].requirementConfigs[i].requestedByFieldRefs,
             at |-> Len(S.trail.injected)] :
               i \in 1..Len(S.c.pendingKeyRequirements[ss].requirementConfigs)} :
            ss \in DOMAIN S.c.pendingKeyRequirements}
    \cup
    UNION {{[kind |-> "requires", ss |-> ss,
             selectionSet |->
                 S.c.pendingFieldRequirements[ss].requirementConfigs[i].selectionSet,
             dsHash |-> S.c.pendingFieldRequirements[ss].requirementConfigs[i].dsHash,
             requestedBy |->
                 S.c.pendingFieldRequirements[ss].requirementConfigs[i].requestedByFieldRefs,
             at |-> Len(S.trail.injected)] :
               i \in 1..Len(S.c.pendingFieldRequirements[ss].requirementConfigs)} :
            ss \in DOMAIN S.c.pendingFieldRequirements}

\* After EnterField the walker stops, descends into the field's selection
\* set, or (LeaveField does nothing) goes on to the next field.
AfterField(S, fieldRef) ==
    IF S.walker.next = "panic" THEN S
    ELSE IF S.walker.stop
         THEN [S EXCEPT !.walker.next = "ended",
                        !.trail.aborted = IF S.walker.err = "none" THEN @ \cup Pending(S)
                                          ELSE @]
    ELSE IF ChildSet(S.operation, fieldRef) # 0
         THEN [S EXCEPT !.walker.next = "enterSS",
                        !.walker.target = ChildSet(S.operation, fieldRef)]
    ELSE [S EXCEPT !.walker.stack[Len(S.walker.stack)].i = @ + 1]

EnterField ==
    /\ AtField
    /\ LET fieldRef == operation.sets[WalkerTop.ss].refs[WalkerTop.i]
           suggestions == Suggestions(TypeOfSet(operation, WalkerTop.ss),
                                      FieldName(operation, fieldRef))
       IN  \E S \in {EnterFieldLoop(Here, fieldRef, suggestions, 1)} :
              \E S1 \in {AfterField(S, fieldRef)} : SetHere(S1)
    /\ UNCHANGED <<cfg, keyLoop>>

\* The end of LeaveSelectionSet: the stack of selection sets is popped and
\* the walker stops, leaves the document, or goes on after the parent field.
AfterLeave(S) ==
    LET ss == S.walker.stack[Len(S.walker.stack)].ss
        rest == SubSeq(S.walker.stack, 1, Len(S.walker.stack) - 1)
        S1 == [S EXCEPT !.c.selectionSetRefs = SubSeq(@, 1, Len(@) - 1),
                        !.trail.left = @ \cup {ss},
                        !.walker.stack = rest]
    IN  IF S.walker.stop THEN [S1 EXCEPT !.walker.next = "ended"]
        ELSE IF rest = <<>> THEN [S1 EXCEPT !.walker.next = "leaveDoc"]
        ELSE [S1 EXCEPT !.walker.next = "field", !.walker.stack[Len(rest)].i = @ + 1]

\* LeaveSelectionSet up to the head of the loop of processPendingKeyRequirements,
\* and to its end when there is no pending key requirement for the set.
LeaveSelectionSet ==
    /\ AtLeave
    /\ \E ref \in {WalkerTop.ss} :
       \E S1 \in {processPendingFieldRequirements(Here, ref)} :
       LET configs == S1.c.pendingKeyRequirements[ref]
       IN  IF ~Has(S1.c.pendingKeyRequirements, ref)
           THEN /\ \E S2 \in {AfterLeave(S1)} : SetHere(S2)
                /\ UNCHANGED keyLoop
           ELSE /\ SetHere([S1 EXCEPT !.c.pendingKeyRequirements = Del(@, ref),
                                      !.walker.next = "keyLoop"])
                /\ keyLoop' = [selectionSetRef |-> ref,
                               configs |-> [parentDSHashes |-> configs.parentDSHashes,
                                            requirementConfigs |->
                                                configs.requirementConfigs],
                               availableHashes |-> configs.parentDSHashes,
                               pendingRequirements |-> configs.requirementConfigs,
                               hasPendingRequirements |-> Len(configs.requirementConfigs) > 0,
                               matchedNothing |-> FALSE, oddRounds |-> FALSE]
    /\ UNCHANGED cfg

\* An iteration that keeps matching against the parent's hashes: the
\* available set is not replaced.
KeyLoopIteration_StaleHashes ==
    /\ walker.next = "keyLoop"
    /\ keyLoop.hasPendingRequirements
    /\ \E r \in {keyRound([S |-> Here, newAvailableHashes |-> <<>>,
                           newPendingRequirements |-> <<>>],
                          keyLoop.selectionSetRef, keyLoop.pendingRequirements,
                          keyLoop.availableHashes, 1)} :
           /\ SetHere(r.S)
           /\ keyLoop' = [keyLoop EXCEPT
                             !.hasPendingRequirements = Len(r.newPendingRequirements) > 0,
                             !.pendingRequirements = r.newPendingRequirements,
                             !.matchedNothing = (r.newAvailableHashes = <<>>),
                             !.oddRounds = ~@]
    /\ UNCHANGED cfg

\* One iteration of "for hasPendingRequirements".
KeyLoopIteration ==
    /\ walker.next = "keyLoop"
    /\ keyLoop.hasPendingRequirements
    /\ \E r \in {keyRound([S |-> Here, newAvailableHashes |-> <<>>,
                           newPendingRequirements |-> <<>>],
                          keyLoop.selectionSetRef, keyLoop.pendingRequirements,
                          keyLoop.availableHashes, 1)} :
           /\ SetHere(r.S)
           /\ keyLoop' = [keyLoop EXCEPT
                             !.availableHashes = r.newAvailableHashes,
                             !.hasPendingRequirements = Len(r.newPendingRequirements) > 0,
                             !.pendingRequirements = r.newPendingRequirements,
                             !.matchedNothing = (r.newAvailableHashes = <<>>),
                             !.oddRounds = ~@]
    /\ UNCHANGED cfg

\* The loop's exit and the rest of LeaveSelectionSet.
KeyLoopExit ==
    /\ walker.next = "keyLoop"
    /\ ~keyLoop.hasPendingRequirements
    /\ \E S \in {AfterLeave(Here)} : SetHere(S)
    /\ keyLoop' = NoKeyLoop
    /\ UNCHANGED cfg

LeaveDocument ==
    /\ walker.next = "leaveDoc"
    /\ walker' = [walker EXCEPT !.next = "ended"]
    /\ UNCHANGED <<cfg, operation, c, keyLoop, trail>>

\* while shouldRevisit() { secondaryRun = true; walk() }
Revisit ==
    /\ walker.next = "ended"
    /\ walker.err = "none"
    /\ shouldRevisit(c)
    /\ c' = [c EXCEPT !.secondaryRun = TRUE]
    /\ walker' = [walker EXCEPT !.next = "enterDoc"]
    /\ UNCHANGED <<cfg, operation, keyLoop, trail>>

PlanDone ==
    /\ walker.next = "ended"
    /\ walker.err = "none"
    /\ ~shouldRevisit(c)
    /\ walker' = [walker EXCEPT !.next = "done"]
    /\ UNCHANGED <<cfg, operation, c, keyLoop, trail>>

PlanFailed ==
    /\ walker.next = "ended"
    /\ walker.err # "none"
    /\ walker' = [walker EXCEPT !.next = "failed"]
    /\ UNCHANGED <<cfg, operation, c, keyLoop, trail>>

PlanNext ==
    \/ Plan /\ UNCHANGED <<evars, avars, lvars>>
    \/ EnterDocument /\ UNCHANGED <<evars, avars, lvars>>
    \/ EnterSelectionSet /\ UNCHANGED <<evars, avars, lvars>>
    \/ EnterField /\ UNCHANGED <<evars, avars, lvars>>
    \/ LeaveSelectionSet /\ UNCHANGED <<evars, avars, lvars>>
    \/ KeyLoopIteration /\ UNCHANGED <<evars, avars, lvars>>
    \/ KeyLoopExit /\ UNCHANGED <<evars, avars, lvars>>
    \/ LeaveDocument /\ UNCHANGED <<evars, avars, lvars>>
    \/ Revisit /\ UNCHANGED <<evars, avars, lvars>>
    \/ PlanDone /\ UNCHANGED <<evars, avars, lvars>>
    \/ PlanFailed /\ UNCHANGED <<evars, avars, lvars>>

(***************************************************************************)
(*                     ARGUMENT RESOLUTION (ResolveArgs)                   *)
(*                                                                         *)
(* Byte strings are sequences of one-character strings, so that prefixes,  *)
(* trimming, splitting and the template tags are computed on the bytes.    *)
(***************************************************************************)
DOUBLE_LBRACE == <<"{", "{">>
DOUBLE_RBRACE == <<"}", "}">>
DOT == <<".">>

From(s, i) == SubSeq(s, i, Len(s))
HasPrefix(s, prefix) ==
    Len(prefix) <= Len(s) /\ SubSeq(s, 1, Len(prefix)) = prefix
TrimPrefix(s, prefix) == IF HasPrefix(s, prefix) THEN From(s, Len(prefix) + 1) ELSE s

\* index of the first occurrence of sub in s, 0 when there is none
Index(s, sub) ==
    LET hits == {i \in 1..(Len(s) - Len(sub) + 1) : SubSeq(s, i, i + Len(sub) - 1) = sub}
    IN  IF hits = {} THEN 0 ELSE CHOOSE i \in hits : \A j \in hits : i <= j
BytesContains(s, sub) == Index(s, sub) # 0

\* strings.Count(s, ".")
CountDots(s) == Cardinality({i \in 1..Len(s) : s[i] = "."})

\* strings.TrimFunc(tag, space or tab or line terminator)
IsSpace(ch) == ch \in {" ", "\t", "\n"}
RECURSIVE TrimLeft(_)
TrimLeft(s) == IF s # <<>> /\ IsSpace(Head(s)) THEN TrimLeft(Tail(s)) ELSE s
RECURSIVE TrimRight(_)
TrimRight(s) ==
    IF s # <<>> /\ IsSpace(s[Len(s)]) THEN TrimRight(SubSeq(s, 1, Len(s) - 1)) ELSE s
TrimFunc(s) == TrimRight(TrimLeft(s))

\* strings.Split(s, ".")
RECURSIVE Split(_)
Split(s) ==
    IF Index(s, DOT) = 0 THEN <<s>>
    ELSE <<SubSeq(s, 1, Index(s, DOT) - 1)>> \o Split(From(s, Index(s, DOT) + 1))

(***************************************************************************)
(* JSON documents as bytes.  jsonparser.Get on bytes finds the document    *)
(* the bytes spell and returns the bytes of the value at the keys: the     *)
(* content of a string without its quotes, the text of an object.          *)
(***************************************************************************)
KeyOrder == <<"a", "y">>

RECURSIVE Serialise(_)
RECURSIVE Members(_, _, _)
Members(f, i, first) ==
    IF i > Len(KeyOrder) THEN <<>>
    ELSE IF KeyOrder[i] \notin DOMAIN f THEN Members(f, i + 1, first)
    ELSE (IF first THEN <<>> ELSE <<",">>)
         \o <<"\"", KeyOrder[i], "\"", ":">> \o Serialise(f[KeyOrder[i]])
         \o Members(f, i + 1, FALSE)
Serialise(v) ==
    CASE v.t = "str" -> <<"\"", v.s, "\"">>
      [] v.t = "obj" -> <<"{">> \o Members(v.v, 1, TRUE) \o <<"}">>
      [] OTHER -> <<>>

RawBytes(v) == IF v.t = "str" THEN <<v.s>> ELSE Serialise(v)

ArgDocs ==
    { JObj([a |-> Str("1")]), JObj([a |-> Str("2")]),
      JObj([a |-> Str("1"), y |-> JObj([a |-> Str("3")])]) }

ParseDoc(bytes) ==
    IF \E d \in ArgDocs : Serialise(d) = bytes
    THEN CHOOSE d \in ArgDocs : Serialise(d) = bytes
    ELSE NilData

\* a key of Split as the member name it spells
KeyName(key) == IF Len(key) = 1 THEN key[1] ELSE "?"

\* jsonparser.Get(bytes, names...)
GetNames(bytes, names) ==
    IF names = <<>> THEN bytes ELSE RawBytes(Get(ParseDoc(bytes), names).v)

GetBytes(bytes, keys) == GetNames(bytes, [i \in 1..Len(keys) |-> KeyName(keys[i])])

(***************************************************************************)
(* Executor.ResolveArgs (execution.go:219-294).                            *)
(***************************************************************************)
\* first loop: one ResolvedArgument per argument
ResolveArg(arg, data) ==
    CASE arg.kind = "Static" -> [Key |-> arg.Name, Value |-> arg.Value]
      [] arg.kind = "Object" -> [Key |-> arg.Name, Value |-> GetNames(data, arg.Path)]

First(S) == CHOOSE i \in S : \A j \in S : i <= j

\* resolved[j].Key as the callback compares it with the tag
TagKey(resolved, j, tag) ==
    IF HasPrefix(tag, DOT) /\ ~HasPrefix(resolved[j].Key, DOT)
    THEN DOT \o resolved[j].Key ELSE resolved[j].Key

\* the callback of ExecuteFuncString: what is written for one tag
ExecuteTag(resolved, rawTag) ==
    LET trimmed == TrimFunc(rawTag)
        oneDot == CountDots(trimmed) = 1
        tag == IF oneDot THEN TrimPrefix(trimmed, DOT) ELSE trimmed
        exact == {j \in 1..Len(resolved) : resolved[j].Key = tag}
        match == {j \in 1..Len(resolved) : HasPrefix(tag, TagKey(resolved, j, tag))}
    IN  IF oneDot /\ exact # {} THEN resolved[First(exact)].Value
        ELSE IF match = {} THEN DOUBLE_LBRACE \o <<" ">> \o tag \o <<" ">> \o DOUBLE_RBRACE
        ELSE LET j == First(match)
                 key == TrimPrefix(tag, TagKey(resolved, j, tag))
             IN  IF key = <<>> THEN resolved[j].Value
                 ELSE GetBytes(resolved[j].Value, Split(TrimPrefix(key, DOT)))

\* fasttemplate.NewTemplate and ExecuteFuncString: text, tag, text, ...
RECURSIVE ExecuteTemplate(_, _)
ExecuteTemplate(resolved, s) ==
    LET n == Index(s, DOUBLE_LBRACE)
        s1 == From(s, n + Len(DOUBLE_LBRACE))
        m == Index(s1, DOUBLE_RBRACE)
        rest == ExecuteTemplate(resolved, From(s1, m + Len(DOUBLE_RBRACE)))
    IN  IF n = 0 THEN [err |-> FALSE, value |-> s]
        ELSE IF m = 0 THEN [err |-> TRUE, value |-> <<>>]
        ELSE IF rest.err THEN rest
        ELSE [err |-> FALSE,
              value |-> SubSeq(s, 1, n - 1) \o ExecuteTag(resolved, SubSeq(s1, 1, m - 1))
                        \o rest.value]

\* second loop: the values that hold a template are replaced in place
RECURSIVE TemplatePass(_, _)
TemplatePass(resolved, i) ==
    IF i > Len(resolved) THEN resolved
    ELSE IF ~BytesContains(resolved[i].Value, DOUBLE_LBRACE)
         THEN TemplatePass(resolved, i + 1)
    ELSE LET t == ExecuteTemplate(resolved, resolved[i].Value)
         IN  IF t.err THEN TemplatePass(resolved, i + 1)
             ELSE TemplatePass([resolved EXCEPT ![i].Value = t.value], i + 1)

\* the condition ResolveArgs filters with
Keep_All(arg) == arg.Key = arg.Key
Keep(arg) == ~HasPrefix(arg.Key, DOT)

\* ResolvedArgs.Filter (execution.go:334-343), with the condition Keep
RECURSIVE Filter(_, _, _)
Filter(r, i, n) ==
    IF i > Len(r) THEN SubSeq(r, 1, n)
    ELSE IF Keep(r[i]) THEN Filter([r EXCEPT ![n + 1] = r[i]], i + 1, n + 1)
    ELSE Filter(r, i + 1, n)

Unfiltered(args, extra, data) ==
    TemplatePass([i \in 1..Len(args \o extra) |-> ResolveArg((args \o extra)[i], data)], 1)

ResolveArgs(args, extra, data) == Filter(Unfiltered(args, extra, data), 1, 0)

(***************************************************************************)
(* Calls of ResolveArgs: sibling arguments x, xy and the internal .o, an   *)
(* argument q whose value holds template tags, and extra arguments of the  *)
(* context.                                                                *)
(***************************************************************************)
MaxSiblings == 2

Tag(inner) == DOUBLE_LBRACE \o inner \o DOUBLE_RBRACE

KeyX == <<"x">>
KeyXY == <<"x", "y">>
KeyO == <<".", "o">>
KeyQ == <<"q">>

DocA1 == JObj([a |-> Str("1")])
DocA2 == JObj([a |-> Str("2")])
DocA1Y == JObj([a |-> Str("1"), y |-> JObj([a |-> Str("3")])])

Siblings ==
    { StaticVariableArgument(KeyX, Serialise(DocA1Y)),
      StaticVariableArgument(KeyX, <<"v">>),
      ObjectVariableArgument(KeyX, <<"y">>),
      StaticVariableArgument(KeyXY, Serialise(DocA2)),
      StaticVariableArgument(KeyO, Serialise(DocA1)) }

TagInners ==
    { <<" ", ".", "x", " ">>, <<".", "x">>, <<" ", ".", "x", "y", " ">>,
      <<" ", ".", "x", ".", "a", " ">>, <<" ", ".", "x", "y", ".", "a", " ">>,
      <<" ", ".", "x", ".", "y", ".", "a", " ">>,
      <<" ", ".", "o", ".", "a", " ">>, <<" ", ".", "o", " ">>,
      <<" ", ".", "z", " ">>, <<".", "z">>, <<" ", ".", "z", ".", "a", " ">>,
      <<"\t", ".", "z", ".", "a">> }

Templates ==
    {Tag(inner) : inner \in TagInners}
    \cup { <<"p">> \o Tag(<<" ", ".", "x", " ">>) \o <<"r">>,
           Tag(<<" ", ".", "x", " ">>) \o Tag(<<" ", ".", "z", ".", "a", " ">>),
           DOUBLE_LBRACE \o <<" ", ".", "x">> }

DistinctKeys(args) ==
    \A i \in 1..Len(args), j \in 1..Len(args) : i # j => args[i].Name # args[j].Name

ArgsScenarios ==
    { [args |-> args, extra |-> extra, data |-> Serialise(DocA1Y)] :
         args \in { a \in { IF front THEN <<StaticVariableArgument(KeyQ, t)>> \o sibs
                                      ELSE sibs \o <<StaticVariableArgument(KeyQ, t)>> :
                                  sibs \in SeqsUpTo(Siblings, MaxSiblings),
                                  t \in Templates, front \in BOOLEAN } :
                      DistinctKeys(a) },
         extra \in { <<>>, <<StaticVariableArgument(<<"e">>, <<"v">>)>>,
                     <<StaticVariableArgument(KeyO, Serialise(DocA2))>> } }

ArgsInit ==
    /\ call = "none"
    /\ argsIn = [args |-> <<>>, extra |-> <<>>, data |-> <<>>]
    /\ argsOut = <<>>

CallResolveArgs ==
    /\ call = "none"
    /\ \E sc \in ArgsScenarios :
          /\ DistinctKeys(sc.args \o sc.extra)
          /\ argsIn' = sc
    /\ call' = "called"
    /\ UNCHANGED argsOut

ReturnResolveArgs ==
    /\ call = "called"
    /\ argsOut' = ResolveArgs(argsIn.args, argsIn.extra, argsIn.data)
    /\ call' = "returned"
    /\ UNCHANGED argsIn

ArgsNext ==
    \/ CallResolveArgs /\ UNCHANGED <<evars, pvars, lvars>>
    \/ ReturnResolveArgs /\ UNCHANGED <<evars, pvars, lvars>>

(***************************************************************************)
(*                     INPUT BUFFER AND LEXER                              *)
(*                                                                         *)
(* ast.Input and lexer.Lexer, on the bytes that decide the dots, the       *)
(* numbers, the names and the ignored characters.  A token's literal is a  *)
(* range of positions in the input, [Start, End), counted from 0.          *)
(***************************************************************************)
MaxInput == 3
MaxAppends == 1
MaxReads == 4

SPACE == " "
TAB == "\t"
LINETERMINATOR == "\n"
COMMA == ","
Digits == {"0", "1"}
Letters == {"a", "_"}

Whitespace == {SPACE, TAB, LINETERMINATOR, COMMA}
IdentBytes == Letters \cup Digits \cup {"-"}
byteIsWhitespace(b) == b \in Whitespace
runeIsDigit(b) == b \in Digits

ByteRange(start, end) == [Start |-> start, End |-> end]
ByteSlice(bytes, r) == SubSeq(bytes, r.Start + 1, r.End)
Token(k, start, end) == [Keyword |-> k, Literal |-> ByteRange(start, end)]

\* The number of bytes from position pos on that are in S, up to the first
\* that is not.
RECURSIVE RunLength(_, _, _)
RunLength(bytes, pos, S) ==
    IF pos < Len(bytes) /\ bytes[pos + 1] \in S THEN 1 + RunLength(bytes, pos + 1, S) ELSE 0

peekWhitespaceLength_NoComma(bytes, pos) ==
    RunLength(bytes, pos, Whitespace \ {COMMA})

peekWhitespaceLength(bytes, pos) == RunLength(bytes, pos, Whitespace)

peekEquals(bytes, pos, want) ==
    /\ pos + Len(want) <= Len(bytes)
    /\ SubSeq(bytes, pos + 1, pos + Len(want)) = want

readDotOrSpread_AlwaysDot(bytes, start) == Token("DOT", start, start + 1)

readDotOrSpread(bytes, start) ==
    IF peekEquals(bytes, start + 1, <<".", ".">>)
    THEN Token("SPREAD", start, start + 3)
    ELSE Token("DOT", start, start + 1)

readDigit(bytes, start) ==
    LET after == start + RunLength(bytes, start, Digits)
    IN  IF peekEquals(bytes, after, <<".">>)
        THEN Token("FLOAT", start, after + 1 + RunLength(bytes, after + 1, Digits))
        ELSE Token("INTEGER", start, after)

readIdent(bytes, start) == Token("IDENT", start, start + RunLength(bytes, start, IdentBytes))

\* Lexer.Read on the content bytes with the cursor at pos.
ReadToken(bytes, pos) ==
    LET start == pos + peekWhitespaceLength(bytes, pos)
    IN  IF start >= Len(bytes) THEN Token("EOF", start, start)
        ELSE IF bytes[start + 1] = "." THEN readDotOrSpread(bytes, start)
        ELSE IF runeIsDigit(bytes[start + 1]) THEN readDigit(bytes, start)
        ELSE readIdent(bytes, start)

\* Input.AppendInputBytes
Appended_Replace(bytes, more) == more

Appended(bytes, more) == bytes \o more

\* Inputs: every content of up to MaxInput bytes, and the chunks appended.
InputBytes == {"a", "1", ".", SPACE, TAB, LINETERMINATOR, COMMA}
Inputs == UNION {[1..n -> InputBytes] : n \in 1..MaxInput}
Chunks == {<<"a">>, <<".">>, <<"1">>, <<SPACE, "a">>, <<COMMA>>}

LexInit ==
    /\ content = <<>>
    /\ InputPosition = 0
    /\ tokens = <<>>
    /\ appended = 0

ResetInputBytes ==
    /\ content = <<>> /\ tokens = <<>> /\ appended = 0
    /\ \E bytes \in Inputs : content' = bytes
    /\ InputPosition' = 0
    /\ UNCHANGED <<tokens, appended>>

AppendInputBytes ==
    /\ appended < MaxAppends
    /\ \E more \in Chunks : content' = Appended(content, more)
    /\ appended' = appended + 1
    /\ UNCHANGED <<InputPosition, tokens>>

Read ==
    /\ Len(tokens) < MaxReads
    /\ \E tok \in {ReadToken(content, InputPosition)} :
          /\ InputPosition' = tok.Literal.End
          /\ tokens' = Append(tokens, [tok |-> tok, bytes |-> ByteSlice(content, tok.Literal),
                                       appended |-> appended, length |-> Len(content)])
    /\ UNCHANGED <<content, appended>>

LexNext ==
    \/ ResetInputBytes /\ UNCHANGED <<evars, pvars, avars>>
    \/ AppendInputBytes /\ UNCHANGED <<evars, pvars, avars>>
    \/ Read /\ UNCHANGED <<evars, pvars, avars>>

Init == ExecInit /\ PlanInit /\ ArgsInit /\ LexInit

LexSpec == Init /\ [][LexNext]_vars

ArgsSpec == Init /\ [][ArgsNext]_vars

PlannerSpec == Init /\ [][PlanNext]_vars

(***************************************************************************)
(* The executor's state machine: every step of every goroutine.            *)
(***************************************************************************)
ExecNext ==
    \/ Execute /\ UNCHANGED <<pvars, avars, lvars>>
    \/ Return /\ UNCHANGED <<pvars, avars, lvars>>
    \/ \E t \in TaskIds : ObjectStart(t) /\ UNCHANGED <<pvars, avars, lvars>>
    \/ \E t \in TaskIds : ObjectCheck(t) /\ UNCHANGED <<pvars, avars, lvars>>
    \/ \E t \in TaskIds : ObjectPathMissing(t) /\ UNCHANGED <<pvars, avars, lvars>>
    \/ \E t \in TaskIds : ObjectFetch(t) /\ UNCHANGED <<pvars, avars, lvars>>
    \/ \E t \in TaskIds : ObjectAppendRead(t) /\ UNCHANGED <<pvars, avars, lvars>>
    \/ \E t \in TaskIds : ObjectAppendWrite(t) /\ UNCHANGED <<pvars, avars, lvars>>
    \/ \E t \in TaskIds : ObjectPrefetchDone(t) /\ UNCHANGED <<pvars, avars, lvars>>
    \/ \E t \in TaskIds : ObjectOpen(t) /\ UNCHANGED <<pvars, avars, lvars>>
    \/ \E t \in TaskIds : ObjectSkipField(t) /\ UNCHANGED <<pvars, avars, lvars>>
    \/ \E t \in TaskIds : ObjectField(t) /\ UNCHANGED <<pvars, avars, lvars>>
    \/ \E t \in TaskIds : ObjectClose(t) /\ UNCHANGED <<pvars, avars, lvars>>
    \/ \E t \in TaskIds : FieldNoBuffer(t) /\ UNCHANGED <<pvars, avars, lvars>>
    \/ \E t \in TaskIds : FieldNull(t) /\ UNCHANGED <<pvars, avars, lvars>>
    \/ \E t \in TaskIds : FieldDescend(t) /\ UNCHANGED <<pvars, avars, lvars>>
    \/ \E t \in TaskIds : ValueWrite(t) /\ UNCHANGED <<pvars, avars, lvars>>
    \/ \E t \in TaskIds : ListNoData(t) /\ UNCHANGED <<pvars, avars, lvars>>
    \/ \E t \in TaskIds : ListBegin(t) /\ UNCHANGED <<pvars, avars, lvars>>
    \/ \E t \in TaskIds : ListWait(t) /\ UNCHANGED <<pvars, avars, lvars>>
    \/ \E t \in TaskIds : ListItem(t) /\ UNCHANGED <<pvars, avars, lvars>>
    \/ \E t \in TaskIds : ListClose(t) /\ UNCHANGED <<pvars, avars, lvars>>
    \/ \E t \in TaskIds : SingleLock(t) /\ UNCHANGED <<pvars, avars, lvars>>
    \/ \E t \in TaskIds : SingleLookup(t) /\ UNCHANGED <<pvars, avars, lvars>>
    \/ \E t \in TaskIds : SingleLockInsert(t) /\ UNCHANGED <<pvars, avars, lvars>>
    \/ \E t \in TaskIds : SingleInsert(t) /\ UNCHANGED <<pvars, avars, lvars>>
    \/ \E t \in TaskIds : SingleReset(t) /\ UNCHANGED <<pvars, avars, lvars>>
    \/ \E t \in TaskIds : SingleResolve(t) /\ UNCHANGED <<pvars, avars, lvars>>
    \/ \E t \in TaskIds : SerialNext(t) /\ UNCHANGED <<pvars, avars, lvars>>
    \/ \E t \in TaskIds : SerialReturn(t) /\ UNCHANGED <<pvars, avars, lvars>>
    \/ \E t \in TaskIds : ParallelSpawn(t) /\ UNCHANGED <<pvars, avars, lvars>>
    \/ \E t \in TaskIds : ParallelWait(t) /\ UNCHANGED <<pvars, avars, lvars>>
    \/ \E t \in TaskIds : ParallelWake(t) /\ UNCHANGED <<pvars, avars, lvars>>
    \/ \E t \in TaskIds : GoFetch(t) /\ UNCHANGED <<pvars, avars, lvars>>
    \/ \E t \in TaskIds : GoDone(t) /\ UNCHANGED <<pvars, avars, lvars>>

Spec == Init /\ [][ExecNext]_vars

(***************************************************************************)
(*                        PROPERTIES: EXECUTOR                             *)
(***************************************************************************)
Count(seq, x) == Cardinality({i \in 1..Len(seq) : seq[i] = x})

\* The step returns from the frame on top of task t's stack.
Returns(t) ==
    /\ Live(t)
    /\ tasks'[t].stack = SubSeq(tasks[t].stack, 1, Len(tasks[t].stack) - 1)

\* C2: once a write to the sink has failed, nothing more is written to the
\* sink and Execute returns that write error.
C2_FirstWriteErrorIsKept ==
    [][(failAt > 0 /\ wcalls >= failAt) =>
          /\ out' = out
          /\ (phase' = "done" => result'.err = "WriteError")]_vars

\* C3: when a List node returns (on a sink that accepts every write), the
\* output ends with the list's "]", holds as many "[" as "]", and a list
\* that rendered no item has emitted exactly "[" "]".
C3_ListBracketsBalanced ==
    [][\A t \in TaskIds :
          (failAt = 0 /\ Returns(t) /\ Top(t).node.kind = "List") =>
             /\ Len(out') >= 2
             /\ out'[Len(out')] = Lit("]")
             /\ Count(out', Lit("[")) = Count(out', Lit("]"))
             /\ (Top(t).n <= 0 => out'[Len(out') - 1] = Lit("["))]_vars

\* C4: on a sink that accepts every write, no "," directly follows a "{"
\* and none directly precedes a "}", whichever fields are skipped.
C4_CommasOnlyBetweenFields ==
    failAt = 0 =>
       \A i \in 1..(Len(out) - 1) :
          /\ ~(out[i] = Lit("{") /\ out[i + 1] = Lit(","))
          /\ ~(out[i] = Lit(",") /\ out[i + 1] = Lit("}"))

\* C9: what Execute returns holds one Instruction per DataSource.Resolve
\* call made, in the order of the calls, nested fetches included.
C9_OneInstructionPerResolve ==
    phase = "done" => result.instruction = resolveLog

\* C10: when an invocation of ParallelFetch.Fetch has returned, every
\* goroutine it started has run its child fetch and finished.
C10_ParallelFetchJoins ==
    \A t \in TaskIds : tasks[t].parent \in returnedPar => tasks[t].stack = <<>>

\* An invocation of a ParallelFetch has returned, with a child of its own,
\* while a child of another invocation of the node is still running.
C10_Witness ==
    \E t \in TaskIds, u \in TaskIds :
       /\ tasks[t].parent \in returnedPar
       /\ tasks[u].parent # 0 /\ tasks[u].parent \notin returnedPar
       /\ tasks[u].stack # <<>>

(***************************************************************************)
(* The serial execution of a plan on a sink that accepts every write, as a *)
(* function: fetches run one after the other in the order of the plan and  *)
(* only fill the buffers B (path -> bytes), and the rendering walk writes  *)
(* the chunks.  Each case follows the case of resolveNode it stands for.   *)
(***************************************************************************)
RECURSIVE SerialFetches(_, _, _, _)
RECURSIVE SerialNode(_, _, _, _, _)
RECURSIVE SerialFields(_, _, _, _, _)
RECURSIVE SerialPrefetch(_, _, _, _, _)
RECURSIVE SerialItems(_, _, _, _, _, _)

\* The task t is inside SingleFetch.Fetch with the buffer b in hand, between
\* having got it (found or inserted) and the return of Resolve.
WritesBuffer(t, b) ==
    /\ Live(t) /\ Top(t).node.kind = "Single" /\ Top(t).buf = b
    /\ \/ Top(t).pc = "resolve"
       \/ Top(t).pc = "ins" /\ Top(t).exists

\* C11: during an execution a buffer inserted for a path hash is never
\* replaced by another buffer, and no two tasks reset or write one buffer
\* at the same time.
C11_BufferInsertedOnce ==
    [][phase = "running" =>
         /\ \A h \in DOMAIN buffers : h \in DOMAIN buffers' /\ buffers'[h] = buffers[h]
         /\ \A t \in TaskIds, u \in TaskIds :
               t # u => \A b \in 1..Len(heap) : ~(WritesBuffer(t, b) /\ WritesBuffer(u, b))]_vars

\* C12: every read and every write of the Buffers map made so far was made
\* by a task that held the mutex of the LockableBufferMap.
C12_MapAccessUnderMutex == \A a \in mapAccess : a.locked

\* The next step of task t assigns e.err (the result of jsonparser.Get).
AssignsErr(t) ==
    At(t, "Object", "start") /\ Top(t).data.t # "nil" /\ Top(t).node.Path # <<>>
\* Task t is inside e.instructions = append(e.instructions, ...).
AppendsInstruction(t) == At(t, "Object", "append") \/ At(t, "Object", "append2")
\* The next step of task t calls e.write.
WritesOut(t) == At(t, "Object", "wnull")

\* C13: no two tasks are at the same time about to write the executor's err
\* field, inside an append to its instruction list, or about to write the
\* output sink.
C13_OnlyBufferMapShared ==
    \A t \in TaskIds, u \in TaskIds :
       t # u => /\ ~(AssignsErr(t) /\ AssignsErr(u))
                /\ ~(AppendsInstruction(t) /\ AppendsInstruction(u))
                /\ ~(WritesOut(t) /\ WritesOut(u))

Rendered(chunks) == SelectSeq(chunks, LAMBDA d : ~LenZero(d))

SerialFetches(fetches, data, path, B) ==
    IF fetches = <<>> THEN B
    ELSE LET fetch == Head(fetches)
             B1 == IF fetch.kind = "Single"
                   THEN Put(B, Append(path, fetch.BufferName),
                            DSBytes(fetch.DataSource,
                                    MaterialiseArgs(fetch.Args, ctx, data), table))
                   ELSE SerialFetches(fetch.Fetches, data, path, B)
         IN  SerialFetches(Tail(fetches), data, path, B1)

SerialFields(node, data, path, B, i) ==
    IF i > Len(node.Fields) THEN [out |-> <<Lit("}")>>, B |-> B]
    ELSE IF FieldSkipped([node |-> node, i |-> i, data |-> data])
         THEN SerialFields(node, data, path, B, i + 1)
    ELSE LET r == SerialNode(node.Fields[i], data, path, TRUE, B)
             rest == SerialFields(node, data, path, r.B, i + 1)
         IN  [out |-> (IF CommaBefore(i) THEN <<Lit(",")>> ELSE <<>>) \o r.out \o rest.out,
              B |-> rest.B]

SerialPrefetch(node, items, path, B, i) ==
    IF i > Len(items) THEN B
    ELSE LET there == items[i].t # "nil" /\ node.Path # <<>>
             r == Get(items[i], node.Path)
             B1 == IF there /\ r.err = "KeyPathNotFound" THEN B
                   ELSE SerialFetches(<<node.Fetch>>, IF there THEN r.v ELSE items[i],
                                      ItemPath(path, i - 1), B)
         IN  SerialPrefetch(node, items, path, B1, i + 1)

SerialItems(node, items, n, path, B, i) ==
    IF i > n THEN [out |-> <<>>, B |-> B]
    ELSE LET r == SerialNode(node, items[i], ItemPath(path, i - 1), FALSE, B)
             rest == SerialItems(node, items, n, path, r.B, i + 1)
         IN  [out |-> <<IF i = 1 THEN Lit("[") ELSE Lit(",")>> \o r.out \o rest.out,
              B |-> rest.B]

SerialNode(node, data, path, shouldFetch, B) ==
    CASE node.kind = "Object" ->
           LET there == data.t # "nil" /\ node.Path # <<>>
               r == Get(data, node.Path)
               d == IF there THEN r.v ELSE data
               B1 == IF shouldFetch /\ node.Fetch.kind # "none"
                     THEN SerialFetches(<<node.Fetch>>, d, path, B) ELSE B
               fields == SerialFields(node, d, path, B1, 1)
           IN  IF there /\ r.err = "KeyPathNotFound" THEN [out |-> <<Lit("null")>>, B |-> B]
               ELSE IF d = NullData THEN [out |-> <<Lit("null")>>, B |-> B1]
               ELSE [out |-> <<Lit("{")>> \o fields.out, B |-> fields.B]
      [] node.kind = "Field" ->
           LET fp == Append(path, node.Name)
               d == IF node.HasResolver THEN B[fp] ELSE data
           IN  IF node.HasResolver /\ fp \notin DOMAIN B
               THEN [out |-> NameChunks(node.Name) \o <<Lit("null")>>, B |-> B]
               ELSE IF LenZero(d) /\ ~HasResolvers(node.Value)
               THEN [out |-> NameChunks(node.Name) \o <<Lit("null")>>, B |-> B]
               ELSE LET r == SerialNode(node.Value, d, fp, TRUE, B)
                    IN  [out |-> NameChunks(node.Name) \o r.out, B |-> r.B]
      [] node.kind = "Value" ->
           LET r == Get(data, node.Path)
           IN  [out |-> IF data = NullData THEN <<Lit("null")>>
                        ELSE IF node.Path = <<>> THEN Rendered(Quoted(node, Chunk(data)))
                        ELSE IF r.err = "KeyPathNotFound" THEN <<Lit("null")>>
                        ELSE Rendered(Quoted(node, Chunk(r.v))),
                B |-> B]
      [] node.kind = "List" ->
           LET ae == ArrayEach(data, node.Path)
               n == MaxItemsOf(node, ae.items)
               B1 == IF ShouldPrefetch(node)
                     THEN SerialPrefetch(node.Value, SubSeq(ae.items, 1, n), path, B, 1)
                     ELSE B
               items == SerialItems(node.Value, ae.items, n, path, B1, 1)
           IN  IF LenZero(data) THEN [out |-> <<Lit("null")>>, B |-> B]
               ELSE [out |-> items.out \o (IF n <= 0 THEN <<Lit("[")>> ELSE <<>>)
                                       \o <<Lit("]")>>,
                     B |-> items.B]

SerialOut == SerialNode(plan, NilData, <<"query">>, TRUE, <<>>).out

\* C1: only the goroutine that called Execute writes to the sink, and what
\* Execute has written when it returns (on a sink that accepts every write)
\* is what the serial execution of the plan writes.
C1_OutputAsSerial ==
    /\ \A i \in 1..Len(outBy) : outBy[i] = 1
    /\ (phase = "done" /\ failAt = 0) => out = SerialOut

(***************************************************************************)
(*                        PROPERTIES: ResolveArgs                          *)
(***************************************************************************)
AllArgs == argsIn.args \o argsIn.extra
HasArg(key) == \E i \in 1..Len(AllArgs) : AllArgs[i].Name = key
\* the value of the argument whose key is exactly key
ValueOf(key) ==
    ResolveArg(AllArgs[First({i \in 1..Len(AllArgs) : AllArgs[i].Name = key})],
               argsIn.data).Value
\* the value given for q and the value returned for q
QIn == ValueOf(KeyQ)
QOut == argsOut[First({i \in 1..Len(argsOut) : argsOut[i].Key = KeyQ})].Value

\* C14: {{ .x }} is replaced by the value of the argument whose key is
\* exactly x and {{ .x.a }} by JSON-get of that value at ["a"], whatever
\* other arguments there are (x is one of the keys x, xy).
C14_TemplateResolution ==
    call = "returned" =>
       \A key \in {KeyX, KeyXY} :
          HasArg(key) =>
             /\ QIn = Tag(<<" ">> \o DOT \o key \o <<" ">>) => QOut = ValueOf(key)
             /\ QIn = Tag(<<" ">> \o DOT \o key \o <<".", "a", " ">>)
                   => QOut = GetNames(ValueOf(key), <<"a">>)

\* the argument a tag names: the first component of its path
NamedBy(inner) == Split(TrimPrefix(TrimFunc(inner), DOT))[1]
NamesNoArgument(inner) ==
    ~HasArg(NamedBy(inner)) /\ ~HasArg(DOT \o NamedBy(inner))

\* C15: a value that is one tag naming no sibling argument is returned as
\* it was given, byte for byte.
C15_UnknownTagVerbatim ==
    call = "returned" =>
       \A inner \in TagInners :
          (QIn = Tag(inner) /\ NamesNoArgument(inner)) => QOut = QIn

ResolvedKeys(r) == [i \in 1..Len(r) |-> r[i].Key]
IsPublic(key) == key = <<>> \/ key[1] # "."

\* C16: the keys returned are the keys of the node arguments followed by
\* those of the extra arguments, without the keys that begin with '.', in
\* that order; each returned argument is the resolved argument of its key;
\* and a tag {{ .o.a }} is resolved against the internal argument .o.
C16_InternalArgsFiltered ==
    call = "returned" =>
       /\ ResolvedKeys(argsOut) = SelectSeq([i \in 1..Len(AllArgs) |-> AllArgs[i].Name], IsPublic)
       /\ \A i \in 1..Len(argsOut) :
             argsOut[i].Key # KeyQ => argsOut[i].Value = ValueOf(argsOut[i].Key)
       /\ (HasArg(KeyO) /\ QIn = Tag(<<" ", ".", "o", ".", "a", " ">>))
             => QOut = GetNames(ValueOf(KeyO), <<"a">>)

\* A call with the internal argument .o, used by the template of q, has
\* returned without it.
C16_Witness ==
    /\ call = "returned"
    /\ HasArg(KeyO) /\ HasArg(KeyX)
    /\ QIn = Tag(<<" ", ".", "o", ".", "a", " ">>)
    /\ QOut = <<"1">>
    /\ Len(argsOut) = Len(AllArgs) - 1

(***************************************************************************)
(*                        PROPERTIES: PLANNER                              *)
(***************************************************************************)
FairPlannerSpec == PlannerSpec /\ WF_vars(PlanNext)

\* C5: once an iteration of the loop of processPendingKeyRequirements has
\* matched no requirement, the loop is over (nothing is left for a further
\* iteration) and the walker holds a planner error.
C5_KeyLoopStopsWhenNothingMatches ==
    keyLoop.matchedNothing =>
       (~keyLoop.hasPendingRequirements /\ walker.err # "none")

\* C6: for every visited field planned on another data source than its
\* parent, once the enclosing selection set has been left either key fields
\* were injected into that set for the field's data source or the walker
\* has stopped with an error.
C6_KeyCompleteness ==
    \A h \in trail.hops :
       h.ss \in trail.left =>
          \/ \E i \in 1..Len(trail.injected) :
                /\ trail.injected[i].kind = "key"
                /\ trail.injected[i].ss = h.ss
                /\ trail.injected[i].dsHash = h.dsHash
          \/ walker.err # "none"

\* C7: the planner eventually stops walking the operation.
C7_DriverTerminates == <>(walker.next \in {"done", "failed", "panic"})

SameRequirement(x, y) ==
    /\ x.kind = y.kind /\ x.ss = y.ss /\ x.dsHash = y.dsHash
    /\ (x.kind = "requires" => x.selectionSet = y.selectionSet)

\* C8: among all the requirements injected so far, no two key requirements
\* of one selection set have the same dsHash and no two field requirements
\* of one selection set the same (dsHash, selectionSet).
C8_InjectedOnce ==
    \A i \in 1..Len(trail.injected), j \in 1..Len(trail.injected) :
       i # j => ~SameRequirement(trail.injected[i], trail.injected[j])

NoTwo(configs, Same(_, _)) ==
    \A i \in 1..Len(configs), j \in 1..Len(configs) : i # j => ~Same(configs[i], configs[j])

\* C8, amended: among the requirements of one selection set that are
\* pending together (until the set is left and they are flushed), no two
\* key requirements have the same dsHash and no two field requirements the
\* same (dsHash, selectionSet).
C8_PendingOnce ==
    /\ \A ss \in DOMAIN c.pendingKeyRequirements :
          NoTwo(c.pendingKeyRequirements[ss].requirementConfigs,
                LAMBDA x, y : x.dsHash = y.dsHash)
    /\ NoTwo(keyLoop.pendingRequirements, LAMBDA x, y : x.dsHash = y.dsHash)
    /\ \A ss \in DOMAIN c.pendingFieldRequirements :
          NoTwo(c.pendingFieldRequirements[ss].requirementConfigs,
                LAMBDA x, y : x.dsHash = y.dsHash /\ x.selectionSet = y.selectionSet)

\* Two fields of one selection set asked for keys of the same data source
\* and share one pending requirement.
C8_Witness ==
    \E ss \in DOMAIN c.pendingKeyRequirements :
       \E i \in 1..Len(c.pendingKeyRequirements[ss].requirementConfigs) :
          Len(c.pendingKeyRequirements[ss].requirementConfigs[i].requestedByFieldRefs) >= 2

(***************************************************************************)
(* Interface-object jump rule.                                             *)
(***************************************************************************)
DataSourceOf(hash) ==
    CHOOSE ds \in {cfg.dataSources[i] : i \in 1..Len(cfg.dataSources)} : ds.hash = hash

\* Both the data source that asked for the key and the data source the key
\* is fetched from represent the type of the selection set as an interface
\* object.
BothInterfaceObjects(inj) ==
    /\ HasInterfaceObject(DataSourceOf(inj.dsHash), operation.sets[inj.ss].type)
    /\ HasInterfaceObject(DataSourceOf(inj.landedTo), operation.sets[inj.ss].type)

\* C17: the key injected for a key requirement omits __typename if and only
\* if both the requesting data source and the data source the key is
\* fetched from represent the key's type as an interface object; every
\* other flushed key requirement includes __typename.
C17_TypenameOmittedBetweenInterfaceObjects ==
    \A i \in 1..Len(trail.injected) :
       trail.injected[i].kind = "key" =>
          (~trail.injected[i].typename <=> BothInterfaceObjects(trail.injected[i]))

(***************************************************************************)
(* Flush order on leaving a selection set.                                 *)
(***************************************************************************)
\* The requirements a step injects into the operation.
Flushed == SubSeq(trail'.injected, Len(trail.injected) + 1, Len(trail'.injected))

\* LeaveSelectionSet returns in this step: the walker pops the set.
LeaveReturns ==
    /\ walker.next \in {"field", "keyLoop"}
    /\ Len(walker'.stack) = Len(walker.stack) - 1

Leaving == walker.stack[Len(walker.stack)].ss

\* C18: on leaving a selection set its pending field requirements are all
\* flushed before any of its pending key requirements (a step flushes field
\* requirements before keys, and while the keys of a set are flushed no
\* field requirement of the set is pending or flushed), and once
\* LeaveSelectionSet(ref) has returned neither pending map has an entry for
\* ref.
C18_FieldsThenKeysThenGone ==
    [][/\ \A i, j \in 1..Len(Flushed) :
             (Flushed[i].kind = "requires" /\ Flushed[j].kind = "key") => i < j
       /\ walker.next = "keyLoop" =>
             /\ \A i \in 1..Len(Flushed) :
                   Flushed[i].kind = "key" /\ Flushed[i].ss = keyLoop.selectionSetRef
             /\ ~Has(c.pendingFieldRequirements, keyLoop.selectionSetRef)
       /\ LeaveReturns =>
             /\ ~Has(c'.pendingFieldRequirements, Leaving)
             /\ ~Has(c'.pendingKeyRequirements, Leaving)
       /\ \A ss \in trail'.left :
             /\ ~Has(c'.pendingFieldRequirements, ss)
             /\ ~Has(c'.pendingKeyRequirements, ss)]_vars

\* A selection set was left after both a field requirement and a key
\* requirement of it were flushed, the field requirement first.
C18_Witness ==
    \E ss \in trail.left :
       /\ ~Has(c.pendingFieldRequirements, ss) /\ ~Has(c.pendingKeyRequirements, ss)
       /\ \E i, j \in 1..Len(trail.injected) :
             /\ i < j
             /\ trail.injected[i].kind = "requires" /\ trail.injected[i].ss = ss
             /\ trail.injected[j].kind = "key" /\ trail.injected[j].ss = ss

(***************************************************************************)
(* The top of a pass.                                                      *)
(***************************************************************************)
\* What a secondary run keeps from the passes before it.
Carried(v) ==
    <<v.visitedFieldsAbstractChecks, v.visitedFieldsRequiresChecks, v.visitedFieldsKeyChecks,
      v.pendingKeyRequirements, v.pendingFieldRequirements,
      v.fieldDependsOn, v.fieldRequirementsConfigs, v.fieldLandedTo>>

\* C19: EnterDocument, at the top of every pass, resets hasNewFields and
\* hasUnresolvedFields to false and empties the stack of selection sets, so
\* that shouldRevisit() is false when the pass begins; on a secondary run it
\* leaves the visited markers, the pending requirements, fieldDependsOn,
\* fieldRequirementsConfigs and fieldLandedTo unchanged.
C19_EnterDocumentResets ==
    [][walker.next = "enterDoc" =>
          /\ ~c'.hasNewFields /\ ~c'.hasUnresolvedFields
          /\ c'.selectionSetRefs = <<>>
          /\ ~shouldRevisit(c')
          /\ c.secondaryRun => Carried(c') = Carried(c)]_vars

\* A secondary run has just entered the document with markers, dependencies
\* and landed fields of the passes before it.
C19_Witness ==
    /\ walker.next = "enterSS" /\ walker.stack = <<>>
    /\ c.secondaryRun
    /\ ~c.hasNewFields /\ ~c.hasUnresolvedFields /\ c.selectionSetRefs = <<>>
    /\ c.visitedFieldsKeyChecks # {}
    /\ c.fieldDependsOn # <<>>
    /\ c.fieldLandedTo # <<>>

(***************************************************************************)
(* SerialFetch: the order of the children.                                 *)
(***************************************************************************)
\* The fetch has returned: the buffer of every SingleFetch in it is in the
\* map and holds what its data source resolved.
RECURSIVE FetchDone(_, _)
FetchDone(fetch, path) ==
    IF fetch.kind = "Single"
    THEN /\ Append(path, fetch.BufferName) \in DOMAIN buffers
         /\ heap[buffers[Append(path, fetch.BufferName)]] # EmptyData
    ELSE \A m \in 1..Len(fetch.Fetches) : FetchDone(fetch.Fetches[m], path)

\* C20: SerialFetch runs its children in list order: while the child at
\* index j is running, every child before it in the list has returned, so
\* the buffers the earlier children wrote are there for the later one.
C20_SerialInListOrder ==
    \A t \in TaskIds : \A k \in 1..(Len(tasks[t].stack) - 1) :
       LET f == tasks[t].stack[k]
           g == tasks[t].stack[k + 1]
       IN  f.node.kind = "Serial" =>
              \A j \in 1..Len(f.node.Fetches) :
                 g.node = f.node.Fetches[j] =>
                    \A m \in 1..(j - 1) : FetchDone(f.node.Fetches[m], f.path)

\* The second child of a SerialFetch is about to call its data source and
\* the buffer of the first child is written.
C20_Witness ==
    \E t \in TaskIds : \E k \in 1..(Len(tasks[t].stack) - 1) :
       LET f == tasks[t].stack[k]
           g == tasks[t].stack[k + 1]
       IN  /\ f.node.kind = "Serial"
           /\ g.node = f.node.Fetches[2]
           /\ g.node.kind = "Single" /\ g.pc = "resolve"
           /\ FetchDone(f.node.Fetches[1], f.path)

(***************************************************************************)
(* Field with a resolver: the buffer it renders.                           *)
(***************************************************************************)
\* Task t takes the step.
Steps(t) == Live(t) /\ tasks'[t] # tasks[t]

\* path + "." + name of the Field frame f
ResolverKey(f) == Append(f.path, f.node.Name)

NameNull(name) == <<Lit("\""), Lit(name), Lit("\""), Lit(":"), Lit("null")>>

\* C21: a Field with hasResolver renders the buffer stored under the hash of
\* parentPath + "." + fieldName: its value node is resolved on the bytes of
\* that buffer; when the map has no buffer for that hash the field writes
\* exactly "name":null and returns without descending into its value (on a
\* sink that accepts every write).
C21_FieldRendersItsBuffer ==
    [][\A t \in TaskIds :
          (failAt = 0 /\ Steps(t) /\ At(t, "Field", "start") /\ Top(t).node.HasResolver) =>
             IF ResolverKey(Top(t)) \in DOMAIN buffers
             THEN \/ /\ Returns(t)
                     /\ LenZero(heap[buffers[ResolverKey(Top(t))]])
                     /\ out' = out \o NameNull(Top(t).node.Name)
                  \/ /\ Len(tasks'[t].stack) = Len(tasks[t].stack)
                     /\ tasks'[t].stack[Len(tasks'[t].stack)].node = Top(t).node.Value
                     /\ tasks'[t].stack[Len(tasks'[t].stack)].data =
                           heap[buffers[ResolverKey(Top(t))]]
             ELSE /\ Returns(t)
                  /\ out' = out \o NameNull(Top(t).node.Name)]_vars

\* A Field with a resolver for which the map has no buffer has just written
\* "name":null and returned to its Object.
C21_Witness ==
    /\ failAt = 0
    /\ \E t \in TaskIds :
          /\ At(t, "Object", "fields") /\ Top(t).i >= 2
          /\ LET field == Top(t).node.Fields[Top(t).i - 1] IN
             /\ field.HasResolver
             /\ Append(Top(t).path, field.Name) \notin DOMAIN buffers
             /\ Len(out) >= 5
             /\ SubSeq(out, Len(out) - 4, Len(out)) = NameNull(field.Name)

(***************************************************************************)
(* Object whose path is missing in the incoming data.                      *)
(***************************************************************************)
\* What the claim says of task t in one step: no Object frame whose path was
\* missing is past the test of the error, and the frame's write of null
\* appends null to the output, leaves err nil and returns.
MissingPathOk(t) ==
    /\ \A k \in 1..Len(tasks[t].stack) :
          (tasks[t].stack[k].node.kind = "Object" /\ tasks[t].stack[k].missing) =>
             tasks[t].stack[k].pc \in {"chk", "wnull"}
    /\ (Steps(t) /\ At(t, "Object", "wnull") /\ Top(t).missing) =>
          /\ Returns(t)
          /\ out' = Append(out, Lit("null"))
          /\ err' = "nil"

\* C22: an Object node with a path that is missing in the incoming data
\* (frame.missing records what jsonparser.Get returned for it) renders
\* exactly null and leaves err nil, and neither invokes its fetch nor
\* renders a field (on a sink that accepts every write).
C22_MissingPathRendersNull ==
    [][failAt = 0 => \A t \in TaskIds : MissingPathOk(t)]_vars

(***************************************************************************)
(* List with a firstN filter.                                              *)
(***************************************************************************)
Min(a, b) == IF a <= b THEN a ELSE b

\* The items of the array the List frame f renders, in array order.
ArrayItems(f) == ArrayEach(f.data, f.node.Path).items

\* min(n, firstN) for the List frame f
FirstNOf(f) == Min(Len(ArrayItems(f)), f.node.Filter)

\* The frame on top of task t's stack after the step.
NewTop(t) == tasks'[t].stack[Len(tasks'[t].stack)]

\* The List starts: with an Object element that has a Fetch it spawns
\* min(n, firstN) resolvers, the i-th on item i under path + "." + i.
SpawnsFirstN(t) ==
    LET f == Top(t) IN
    IF ShouldPrefetch(f.node)
    THEN /\ Len(tasks') = Len(tasks) + FirstNOf(f)
         /\ \A i \in 1..FirstNOf(f) :
               LET g == tasks'[Len(tasks) + i].stack[1] IN
               /\ g.node = f.node.Value
               /\ g.data = ArrayItems(f)[i]
               /\ g.path = Append(f.path, Itoa(i - 1))
               /\ g.prefetch # "none"
    ELSE Len(tasks') = Len(tasks)

\* The List renders its next item: it is within the first min(n, firstN),
\* it is the next one of the array and its separator is written.
RendersNextItem(t) ==
    LET f == Top(t) IN
    /\ f.i <= FirstNOf(f)
    /\ out' = Append(out, IF f.i = 1 THEN Lit("[") ELSE Lit(","))
    /\ NewTop(t).node = f.node.Value
    /\ NewTop(t).data = ArrayItems(f)[f.i]
    /\ NewTop(t).path = Append(f.path, Itoa(f.i - 1))

EnteredField == operation.sets[WalkerTop.ss].refs[WalkerTop.i]
EnteredSuggestions ==
    Suggestions(TypeOfSet(operation, WalkerTop.ss), FieldName(operation, EnteredField))

\* The selected suggestions of the entered field whose hash is the hash of
\* no configured data source.
Orphans ==
    {i \in 1..Len(EnteredSuggestions) :
        /\ EnteredSuggestions[i].Selected
        /\ ~HasDataSource(EnteredSuggestions[i].DataSourceHash)}

FirstOrphan == CHOOSE i \in Orphans : \A j \in Orphans : i <= j

\* The visitor after the suggestions before the first orphan only.
BeforeOrphan == EnterFieldLoop(Here, EnteredField, SubSeq(EnteredSuggestions, 1, FirstOrphan - 1), 1)

\* C24: when a selected suggestion of the entered field names a hash that
\* matches no configured data source, EnterField stops the walk with an
\* internal error, and what it enqueued and rewrote is what the suggestions
\* before that one asked for: nothing for that suggestion or a later one.
C24_OrphanSuggestionStops ==
    [][(AtField /\ walker' # walker /\ Orphans # {}) =>
          /\ walker'.err # "none"
          /\ walker'.next = "ended"
          /\ c' = BeforeOrphan.c
          /\ operation' = BeforeOrphan.operation]_vars

(***************************************************************************)
(*                        PROPERTIES: LEXER                                *)
(***************************************************************************)
LastToken == tokens[Len(tokens)]
NewToken == tokens'[Len(tokens')]
IsRead == Len(tokens') = Len(tokens) + 1

IsEOF(t) == t.tok.Keyword = "EOF" /\ t.tok.Literal.Start = t.tok.Literal.End /\ t.bytes = <<>>

OnlyIgnored(bytes) == \A i \in 1..Len(bytes) : bytes[i] \in {SPACE, TAB, LINETERMINATOR, COMMA}

\* C25: once Read() has returned an EOF token, the next Read() with no
\* append in between returns an EOF token with an empty literal (and so
\* does every later one); on an input of ignored characters only (space,
\* tab, line terminator, comma) the first Read() returns EOF.
C25_EOFIdempotent ==
    [][IsRead =>
          /\ (tokens # <<>> /\ LastToken.tok.Keyword = "EOF" /\ LastToken.appended = appended)
                => IsEOF(NewToken)
          /\ (tokens = <<>> /\ appended = 0 /\ OnlyIgnored(content)) => IsEOF(NewToken)]_vars

\* An input of ignored characters only was read three times: EOF each time.
C25_Witness ==
    /\ content # <<>> /\ OnlyIgnored(content) /\ appended = 0
    /\ Len(tokens) >= 3
    /\ \A i \in 1..Len(tokens) : IsEOF(tokens[i])

\* C26: after any interleaving of Read() and AppendInputBytes(B) following
\* ResetInputBytes(A), the literal range of every token lies within the
\* current content and resolves to the bytes it resolved to when the token
\* was emitted, and the reads go on with the appended bytes: every token
\* starts where the one before it ended, ignored bytes aside.
C26_AppendSafe ==
    \A i \in 1..Len(tokens) :
       /\ 0 <= tokens[i].tok.Literal.Start
       /\ tokens[i].tok.Literal.Start <= tokens[i].tok.Literal.End
       /\ tokens[i].tok.Literal.End <= Len(content)
       /\ ByteSlice(content, tokens[i].tok.Literal) = tokens[i].bytes
       /\ OnlyIgnored(SubSeq(content,
                             (IF i = 1 THEN 0 ELSE tokens[i - 1].tok.Literal.End) + 1,
                             tokens[i].tok.Literal.Start))

\* A token was read from the input as reset, bytes were appended, and a
\* later token was read from the appended bytes.
C26_Witness ==
    \E i \in 1..Len(tokens), j \in 1..Len(tokens) :
       /\ i < j
       /\ tokens[i].appended = 0 /\ tokens[i].tok.Keyword # "EOF"
       /\ tokens[j].appended > 0 /\ tokens[j].tok.Keyword # "EOF"
       /\ tokens[j].tok.Literal.Start >= tokens[i].length

\* The maximal runs of dots of the content: <<p, n>> for n dots from
\* position p on, with no dot before or after them.
DotRuns ==
    {r \in (0..Len(content)) \X (1..Len(content)) :
        /\ r[1] + r[2] <= Len(content)
        /\ \A i \in (r[1] + 1)..(r[1] + r[2]) : content[i] = "."
        /\ (r[1] > 0 => content[r[1]] # ".")
        /\ (r[1] + r[2] < Len(content) => content[r[1] + r[2] + 1] # ".")}

\* The tokens read from the bytes of the run r, in order.
TokensOf(r) ==
    SelectSeq([i \in 1..Len(tokens) |-> tokens[i].tok],
              LAMBDA t : t.Literal.Start < r[1] + r[2] /\ t.Literal.End > r[1])

DotTokens(r) ==
    CASE r[2] = 3 -> <<Token("SPREAD", r[1], r[1] + 3)>>
      [] r[2] = 2 -> <<Token("DOT", r[1], r[1] + 1), Token("DOT", r[1] + 1, r[1] + 2)>>
      [] r[2] = 1 -> <<Token("DOT", r[1], r[1] + 1)>>

\* The run has been read to its end, from an input that was not appended to.
ReadThrough(r) == appended = 0 /\ r[2] <= 3 /\ InputPosition >= r[1] + r[2]

AfterDigit(r) == r[1] > 0 /\ content[r[1]] \in Digits

NewlyRewritten == operation'.rewritten \ operation.rewritten
PassEndedForRevisit == walker.next = "ended" /\ walker.err = "none" /\ c.hasNewFields

\* C28: when the rewrite of a field's selection set reports a rewrite,
\* hasNewFields is set and the pass ends with that call of EnterField: no
\* further field is entered and no selection set is left, shouldRevisit()
\* is true, and the step after a pass that ended so without an error starts
\* the next pass on the rewritten operation.  Over all passes the check of
\* a fieldRef runs at most once: its mark is set with the check and never
\* removed, and a field is rewritten only in the step that sets its mark.
C28_RewriteAbortsPass ==
    [][/\ NewlyRewritten # {} =>
             /\ c'.hasNewFields /\ shouldRevisit(c')
             /\ walker'.stop /\ walker'.next = "ended"
             /\ c'.selectionSetRefs = c.selectionSetRefs
             /\ trail'.left = trail.left
             /\ walker'.stack = walker.stack
       /\ PassEndedForRevisit =>
             /\ walker'.next = "enterDoc" /\ c'.secondaryRun
             /\ operation' = operation
       /\ c.visitedFieldsAbstractChecks \subseteq c'.visitedFieldsAbstractChecks
       /\ operation.rewritten \subseteq operation'.rewritten
       /\ \A f \in NewlyRewritten :
             f \notin c.visitedFieldsAbstractChecks /\ f \in c'.visitedFieldsAbstractChecks]_vars

\* A pass that was ended by a rewrite, with a selection set still open.
C28_Witness ==
    /\ walker.next = "ended" /\ walker.stop /\ walker.err = "none"
    /\ operation.rewritten # {} /\ c.hasNewFields
    /\ c.selectionSetRefs # <<>>

\* The selection set has a pending key requirement for dsHash that names
\* fieldRef among the fields that requested it.
Enqueued(v, ss, fieldRef, dsHash) ==
    /\ Has(v.pendingKeyRequirements, ss)
    /\ \E i \in 1..Len(v.pendingKeyRequirements[ss].requirementConfigs) :
          /\ v.pendingKeyRequirements[ss].requirementConfigs[i].dsHash = dsHash
          /\ Contains(v.pendingKeyRequirements[ss].requirementConfigs[i].requestedByFieldRefs,
                      fieldRef)

\* The suggestions of the entered field that EnterField handles for the
\* first time: selected, not a required key field, of a configured data
\* source, with no mark yet for (field, data source).
FirstVisits ==
    {i \in 1..Len(EnteredSuggestions) :
        /\ EnteredSuggestions[i].Selected
        /\ ~EnteredSuggestions[i].IsRequiredKeyField
        /\ HasDataSource(EnteredSuggestions[i].DataSourceHash)
        /\ <<EnteredField, EnteredSuggestions[i].DataSourceHash>> \notin c.visitedFieldsKeyChecks}

ParentHashes == SelectedHashes(ParentSuggestions(operation, EnteredField))
Hop(dsHash) == ParentHashes # <<>> /\ ParentHashes # <<dsHash>>
EnteredType == TypeOfSet(operation, WalkerTop.ss)
EnteredName == FieldName(operation, EnteredField)

NeedsKey(ds) ==
    IF EnteredName = typeNameField /\ ~HasEntityInterface(ds, EnteredType) THEN FALSE
    ELSE \/ Hop(ds.hash)
         \/ RequiredFieldsByRequires(ds, EnteredType, EnteredName).exists

\* C29: on the first visit of a (field, selected data source) pair, a key
\* requirement for the field and that data source is pending in the current
\* selection set after the visit if and only if the parent's selected
\* data-source hashes differ from the field's data source or the field has
\* an @requires on that data source; for the field __typename none is,
\* unless the enclosing type is an entity interface of the data source.
C29_KeyRequirementIffHopOrRequires ==
    [][(AtField /\ walker' # walker /\ Orphans = {}) =>
          \A i \in FirstVisits :
             Enqueued(c', WalkerTop.ss, EnteredField, EnteredSuggestions[i].DataSourceHash)
                <=> NeedsKey(DataSourceAt(EnteredSuggestions[i].DataSourceHash))]_vars

Elems(q) == {q[i] : i \in 1..Len(q)}

DependsOn(r, d) == Elems(Lookup(c.fieldDependsOn, <<r, d>>, <<>>))

\* C30: after any sequence of flushes no field depends on itself, and for
\* every requirement that was injected, from a key or from an @requires,
\* every field ref it required other than the requesting field itself is
\* recorded in fieldDependsOn for each field that requested it.
C30_NoSelfDependency ==
    /\ \A k \in DOMAIN c.fieldDependsOn : k[1] \notin Elems(c.fieldDependsOn[k])
    /\ \A i \in 1..Len(trail.injected) :
          \A r \in Elems(trail.injected[i].requestedBy) :
             Elems(trail.injected[i].required) \ {r} \subseteq DependsOn(r, trail.injected[i].dsHash)

(***************************************************************************)
(*                 PROPERTIES: KEY MATCHING                                *)
(***************************************************************************)
Available(dsHashes, key) ==
    {i \in 1..Len(cfg.dataSources) :
        /\ Contains(dsHashes, cfg.dataSources[i].hash)
        /\ HasKeyRequirement(cfg.dataSources[i], key.TypeName, key.SelectionSet)}

\* The possible keys of the requirement that some available data source has.
Matching(requirements, dsHashes) ==
    {k \in 1..Len(requirements.possibleKeys) :
        Available(dsHashes, requirements.possibleKeys[k]) # {}}

FirstKey(requirements, dsHashes) ==
    requirements.possibleKeys[CHOOSE k \in Matching(requirements, dsHashes) :
                                 \A j \in Matching(requirements, dsHashes) : k <= j]

FlushedFor(dsHash) == SelectSeq(Flushed, LAMBDA e : e.kind = "key" /\ e.dsHash = dsHash)

InKeyRound == walker.next = "keyLoop" /\ keyLoop.hasPendingRequirements

\* The data source recorded for ref is that of the last key injected in the
\* step that required ref.
LandedAsFlushed(ref) ==
    \E i \in 1..Len(Flushed) :
       /\ ref \in Elems(Flushed[i].required)
       /\ \A j \in (i + 1)..Len(Flushed) : ref \notin Elems(Flushed[j].required)
       /\ Has(c'.fieldLandedTo, ref)
       /\ c'.fieldLandedTo[ref] = Flushed[i].landedTo

\* C31: in a round of the key loop every pending requirement that an
\* available data source can satisfy injects exactly one key, the first
\* entry of its possibleKeys that some available data source has, fetched
\* from an available data source that has it; a requirement that none can
\* satisfy injects nothing; and fieldLandedTo records that data source for
\* every field ref injected.
C31_FirstPossibleKey ==
    [][InKeyRound =>
          /\ \A i \in 1..Len(keyLoop.pendingRequirements) :
                LET requirements == keyLoop.pendingRequirements[i]
                    injected == FlushedFor(requirements.dsHash)
                IN  IF Matching(requirements, keyLoop.availableHashes) = {}
                    THEN injected = <<>>
                    ELSE /\ Len(injected) = 1
                         /\ injected[1].selectionSet =
                               FirstKey(requirements, keyLoop.availableHashes).SelectionSet
                         /\ \E d \in Available(keyLoop.availableHashes,
                                               FirstKey(requirements, keyLoop.availableHashes)) :
                               cfg.dataSources[d].hash = injected[1].landedTo
          /\ \A i \in 1..Len(Flushed) :
                \A ref \in Elems(Flushed[i].required) : LandedAsFlushed(ref)]_vars

(***************************************************************************)
(*                 PROPERTIES: LIST PREFETCH                               *)
(***************************************************************************)
\* Task t is a per-item resolver of a list, in its call of resolveNode.
ItemResolver(t) ==
    /\ Live(t) /\ tasks[t].stack[1].prefetch # "none"

\* The resolver returns from resolveNode in this step: the goroutine ends.
ResolverReturns(t) ==
    /\ ItemResolver(t) /\ Len(tasks[t].stack) = 1
    /\ tasks'[t].stack = <<>>

\* C32: every per-item resolver spawned by a list signals the list's wait
\* group exactly once, whatever way it takes through the Object (path
\* found, path missing in the item, item null): the step in which it
\* returns is the one in which it calls Done, and the counter is lowered by
\* no other step.
C32_ResolverSignalsOnce ==
    [][/\ \A t \in 1..Len(tasks) :
             ResolverReturns(t) => wg'["L"] = WgDone(wg["L"])
       /\ wg'["L"].v < wg["L"].v => \E t \in 1..Len(tasks) : ResolverReturns(t)]_vars

\* The path of an item of a list: it ends with the item's index.
IsItemPath(path) == path # <<>> /\ path[Len(path)] \in {Itoa(i) : i \in 0..MaxItems}

\* Task t invokes the Fetch of the Object it is resolving in this step.
InvokesFetch(t) ==
    /\ At(t, "Object", "fetch")
    /\ Len(tasks'[t].stack) = Len(tasks[t].stack) + 1

\* The SingleFetch invocations under way for items of lists.
ItemFetches ==
    {x \in UNION {{<<t, k>> : k \in 1..Len(tasks[t].stack)} : t \in TaskIds} :
        /\ tasks[x[1]].stack[x[2]].node.kind = "Single"
        /\ IsItemPath(tasks[x[1]].stack[x[2]].path)}

\* A list with prefetch has passed its wait for the item resolvers.
RenderingPrefetched(f) ==
    /\ f.node.kind = "List" /\ f.pc = "render" /\ ShouldPrefetch(f.node)

ItemFetched(f, i) ==
    /\ FetchDone(f.node.Value.Fetch, ItemPath(f.path, i - 1))
    /\ \A j \in 1..f.n : j # i => ItemPath(f.path, j - 1) # ItemPath(f.path, i - 1)

\* C33, the state part: while a list whose element is an Object with a
\* Fetch renders, the fetch of every item it renders has been made, into a
\* buffer under the item's own key path.i.bufferName, and two invocations
\* under way for items at the same time have different keys and buffers.
ItemFetchesApart ==
    /\ \A t \in TaskIds : \A k \in 1..Len(tasks[t].stack) :
          RenderingPrefetched(tasks[t].stack[k]) =>
             \A i \in 1..tasks[t].stack[k].n : ItemFetched(tasks[t].stack[k], i)
    /\ \A x \in ItemFetches, y \in ItemFetches :
          x # y =>
             LET f == tasks[x[1]].stack[x[2]]
                 g == tasks[y[1]].stack[y[2]]
             IN  /\ BufferName(f) # BufferName(g)
                 /\ (f.buf # 0 /\ g.buf # 0) => f.buf # g.buf

\* C33: for a list whose element is an Object with a Fetch, the fetch of
\* each rendered item is invoked exactly once in an Execute: by the item's
\* prefetch resolver, never by the walk that renders the item, and never for
\* a key that is in the buffer map already; and the items' fetches use
\* keys path.i.bufferName that differ from item to item, so that concurrent
\* item fetches never share a buffer.
C33_ItemFetchedOnce ==
    [][/\ ItemFetchesApart
       /\ \A t \in TaskIds :
             (InvokesFetch(t) /\ IsItemPath(Top(t).path)) =>
                 /\ Top(t).prefetch # "none" /\ Top(t).shouldFetch
                 /\ Len(tasks[t].stack) = 1
       /\ \A x \in ItemFetches :
             (tasks[x[1]].stack[x[2]].pc \in {"lookup", "insert"}) =>
                 BufferName(tasks[x[1]].stack[x[2]]) \notin DOMAIN buffers]_vars

\* A list renders its second item after two resolvers each made one fetch.
C33_Witness ==
    \E t \in TaskIds : \E k \in 1..Len(tasks[t].stack) :
       /\ RenderingPrefetched(tasks[t].stack[k])
       /\ tasks[t].stack[k].n >= 2 /\ tasks[t].stack[k].i > 2
       /\ ItemFetched(tasks[t].stack[k], 1) /\ ItemFetched(tasks[t].stack[k], 2)

(***************************************************************************)
(*                 PROPERTIES: KEYS OF A FIELD WITH @requires              *)
(***************************************************************************)
\* The entered field has an @requires on a data source it is planned on,
\* which is the one selected data source of its parent and has no key,
\* resolvable or not, for the enclosing type.
RequiresWithoutKeys ==
    \E i \in FirstVisits :
       LET ds == DataSourceAt(EnteredSuggestions[i].DataSourceHash) IN
       /\ ParentHashes = <<ds.hash>>
       /\ RequiredFieldsByRequires(ds, EnteredType, EnteredName).exists
       /\ RequiredFieldsByKey(ds, EnteredType) = <<>>
       /\ NonResolvableKeys(ds, EnteredType) = <<>>

\* C34: the visit of a field with @requires that is planned on its parent's
\* data source, whose type has neither a resolvable nor a non-resolvable
\* key there, completes: EnterField returns to the walker, which goes on,
\* and keyConfigurations[0] is not evaluated on the empty list.
C34_NoIndexIntoEmptyKeys ==
    [][(AtField /\ walker' # walker /\ RequiresWithoutKeys) =>
          walker'.next \in {"field", "enterSS", "ended"}]_vars

(***************************************************************************)
(*                 PROPERTIES: REQUIREMENTS ACROSS AN ABORTED PASS         *)
(***************************************************************************)
\* The requirement r, pending when a pass was aborted, is still waiting for
\* its selection set to be left: in a pending map, or with the key loop
\* that is flushing the set.
StillPending(r) ==
    IF r.kind = "requires"
    THEN /\ Has(c.pendingFieldRequirements, r.ss)
         /\ \E i \in 1..Len(c.pendingFieldRequirements[r.ss].requirementConfigs) :
               LET q == c.pendingFieldRequirements[r.ss].requirementConfigs[i] IN
               /\ q.dsHash = r.dsHash /\ q.selectionSet = r.selectionSet
               /\ Elems(r.requestedBy) \subseteq Elems(q.requestedByFieldRefs)
    ELSE \/ /\ Has(c.pendingKeyRequirements, r.ss)
            /\ \E i \in 1..Len(c.pendingKeyRequirements[r.ss].requirementConfigs) :
                  LET q == c.pendingKeyRequirements[r.ss].requirementConfigs[i] IN
                  /\ q.dsHash = r.dsHash
                  /\ Elems(r.requestedBy) \subseteq Elems(q.requestedByFieldRefs)
         \/ /\ walker.next = "keyLoop" /\ keyLoop.selectionSetRef = r.ss
            /\ \E i \in 1..Len(keyLoop.pendingRequirements) :
                  /\ keyLoop.pendingRequirements[i].dsHash = r.dsHash
                  /\ Elems(r.requestedBy) \subseteq
                        Elems(keyLoop.pendingRequirements[i].requestedByFieldRefs)

\* The injections made for r since the pass was aborted.
FlushesOf(r) ==
    {i \in (r.at + 1)..Len(trail.injected) :
        /\ trail.injected[i].kind = r.kind /\ trail.injected[i].ss = r.ss
        /\ trail.injected[i].dsHash = r.dsHash
        /\ (r.kind = "requires" => trail.injected[i].selectionSet = r.selectionSet)
        /\ Elems(r.requestedBy) \subseteq Elems(trail.injected[i].requestedBy)}

\* C35: a key or @requires requirement that was pending for a selection set
\* when a rewrite aborted the pass is not lost: until its selection set is
\* left in a later pass it stays pending and is not injected, and from then
\* on it has been injected exactly once, in a later pass.
C35_PendingSurvivesAbort ==
    \A r \in trail.aborted :
       IF StillPending(r) THEN FlushesOf(r) = {}
       ELSE /\ Cardinality(FlushesOf(r)) = 1
            /\ c.secondaryRun

\* A key requirement and an @requires requirement that were pending when a
\* rewrite aborted the pass have both been injected, in a later pass.
C35_Witness ==
    /\ \E r \in trail.aborted : r.kind = "key" /\ ~StillPending(r) /\ FlushesOf(r) # {}
    /\ \E r \in trail.aborted : r.kind = "requires" /\ ~StillPending(r) /\ FlushesOf(r) # {}

(***************************************************************************)
(* PROPERTIES: DUPLICATE REQUIREMENTS                                      *)
(***************************************************************************)
\* The positions of ref in refs.
Occurrences(refs, ref) == {n \in 1..Len(refs) : refs[n] = ref}

\* The calls of addPendingFieldRequirements made by the step: fieldRequirementsConfigs
\* gets one more configuration under (fieldRef, dsHash) with every call.
EnqueuedRequires ==
    {key \in DOMAIN c'.fieldRequirementsConfigs :
        Len(c'.fieldRequirementsConfigs[key]) > Len(Lookup(c.fieldRequirementsConfigs, key, <<>>))}

\* The pending @requires requirements of the selection set ss with this dedup key.
RequiresWithKey(C, ss, dsHash, selectionSet) ==
    LET configs == Lookup(C.pendingFieldRequirements, ss,
                          [existsTracker |-> {}, requirementConfigs |-> <<>>]).requirementConfigs
    IN  {i \in 1..Len(configs) :
            configs[i].dsHash = dsHash /\ configs[i].selectionSet = selectionSet}

\* The key requirements pending for the selection set ss.
KeyConfigs(C, ss) ==
    Lookup(C.pendingKeyRequirements, ss,
           [existsTracker |-> {}, parentDSHashes |-> <<>>,
            requirementConfigs |-> <<>>]).requirementConfigs

\* The step leaves the key requirements of the entered field's selection
\* set as they are, except that requirements for data sources the field is
\* handled for in this step are appended or get the field's ref appended
\* once; no two of them have the same dsHash.
KeyRefsAddedByDsHash ==
    LET ss == WalkerTop.ss
        old == KeyConfigs(c, ss)
        new == KeyConfigs(c', ss)
        handled == {key[2] : key \in {k \in c'.visitedFieldsKeyChecks \ c.visitedFieldsKeyChecks :
                                         k[1] = EnteredField}}
    IN  /\ Len(new) >= Len(old)
        /\ \A i \in 1..Len(new) : \A j \in 1..Len(new) :
              new[i].dsHash = new[j].dsHash => i = j
        /\ \A i \in 1..Len(new) :
              IF i > Len(old)
              THEN /\ new[i].requestedByFieldRefs = <<EnteredField>>
                   /\ new[i].dsHash \in handled
              ELSE /\ new[i].dsHash = old[i].dsHash
                   /\ \/ new[i].requestedByFieldRefs = old[i].requestedByFieldRefs
                      \/ /\ new[i].requestedByFieldRefs =
                               Append(old[i].requestedByFieldRefs, EnteredField)
                         /\ ~Contains(old[i].requestedByFieldRefs, EnteredField)
                         /\ new[i].dsHash \in handled

\* Every field named by a pending @requires requirement has asked the
\* requirement's data source for the requirement's selection set.
RequestedByItsFields(C) ==
    \A ss \in DOMAIN C.pendingFieldRequirements :
       \A i \in 1..Len(C.pendingFieldRequirements[ss].requirementConfigs) :
          LET q == C.pendingFieldRequirements[ss].requirementConfigs[i] IN
          \A n \in 1..Len(q.requestedByFieldRefs) :
             LET asked == Lookup(C.fieldRequirementsConfigs,
                                 <<q.requestedByFieldRefs[n], q.dsHash>>, <<>>)
             IN  \E m \in 1..Len(asked) : asked[m].SelectionSet = q.selectionSet

\* C36: a field that enqueues an @requires requirement is, after the step,
\* named once by the one pending requirement of its selection set with the
\* same (dsHash, selectionSet), and no pending requirement names a field that
\* did not ask its data source for its selection set; a field that enqueues
\* a key requirement is added once, to the one pending requirement with the
\* dsHash of the data source it is handled for.
C36_RefAddedToSameDedupKey ==
    [][AtField =>
         /\ \A key \in EnqueuedRequires :
               LET ss == operation.fields[key[1]].owner
                   asked == c'.fieldRequirementsConfigs[key]
                   hit == RequiresWithKey(c', ss, key[2], asked[Len(asked)].SelectionSet)
               IN  /\ Cardinality(hit) = 1
                   /\ \A i \in hit :
                         Cardinality(Occurrences(
                            c'.pendingFieldRequirements[ss].requirementConfigs[i]
                               .requestedByFieldRefs, key[1])) = 1
         /\ RequestedByItsFields(c')
         /\ KeyRefsAddedByDsHash]_vars

(***************************************************************************)
(* PROPERTIES: THE KEY LOOP AGAINST SATURATION                             *)
(***************************************************************************)
\* The dsHashes of the requirements that some data source with a hash in
\* available can satisfy with one of their possible keys.
Reachable(requirementConfigs, available) ==
    {requirementConfigs[i].dsHash : i \in {j \in 1..Len(requirementConfigs) :
        \E k \in 1..Len(requirementConfigs[j].possibleKeys) :
           \E d \in 1..Len(cfg.dataSources) :
              /\ cfg.dataSources[d].hash \in available
              /\ HasKeyRequirement(cfg.dataSources[d],
                                   requirementConfigs[j].possibleKeys[k].TypeName,
                                   requirementConfigs[j].possibleKeys[k].SelectionSet)}}

\* The reference: the available set starts as the parent's hashes and every
\* matched requirement's data source is added to it, until nothing is added.
RECURSIVE Saturation(_, _)
Saturation(requirementConfigs, available) ==
    LET more == available \cup Reachable(requirementConfigs, available)
    IN  IF more = available THEN available
        ELSE Saturation(requirementConfigs, more)

\* The requirements of the loop's selection set that the reference matches.
ReferenceMatched ==
    LET all == Saturation(keyLoop.configs.requirementConfigs,
                          Elems(keyLoop.configs.parentDSHashes))
    IN  Reachable(keyLoop.configs.requirementConfigs, all)

Hashes(requirementConfigs) ==
    {requirementConfigs[i].dsHash : i \in 1..Len(requirementConfigs)}

\* The requirements the loop has matched so far.
LoopMatched(k) == Hashes(k.configs.requirementConfigs) \ Hashes(k.pendingRequirements)

\* C37: the key loop matches a requirement only if the reference saturation
\* reaches it, a round matches exactly the pending requirements that the
\* accumulated set (the parent's hashes and every data source matched so
\* far) can satisfy, and a round that matches nothing leaves only
\* requirements the reference does not reach.
C37_LoopMatchesSaturation ==
    [][InKeyRound =>
         /\ LoopMatched(keyLoop') \subseteq ReferenceMatched
         /\ LoopMatched(keyLoop') \ LoopMatched(keyLoop) =
               Reachable(keyLoop.pendingRequirements,
                         Elems(keyLoop.configs.parentDSHashes) \cup LoopMatched(keyLoop))
         /\ (LoopMatched(keyLoop') = LoopMatched(keyLoop)
               => LoopMatched(keyLoop) = ReferenceMatched)]_vars

\* A third round of the loop has matched a requirement: by then the
\* available set holds neither the parent's hashes nor the data source
\* matched in the first round.
C37_Witness ==
    /\ walker.next = "keyLoop"
    /\ keyLoop.oddRounds
    /\ Cardinality(LoopMatched(keyLoop)) = 3
    /\ Len(keyLoop.availableHashes) = 1
    /\ Elems(keyLoop.configs.parentDSHashes) \cap Elems(keyLoop.availableHashes) = {}

====
